---- MODULE Spec2Model ----
(***************************************************************************)
(* Model of the tabbed-box geometry engine (geometry_util/geometry.py and  *)
(* geometry_util/box.py): Dim, Point, Line, Edge, Side and Box.            *)
(*                                                                         *)
(* Numbers.  The program computes with Python floats.  The model computes  *)
(* with exact rationals [n, d] in lowest terms (d > 0), so every statement *)
(* checked here is a statement about the geometry in exact arithmetic;     *)
(* rounding of the last binary digit is not represented.                   *)
(*                                                                         *)
(* Objects.  Point objects are mutable and shared by reference (a corner   *)
(* Point belongs to two edges, Point.rotate works in place), so Points     *)
(* live in a heap, a sequence of [x, y] records, and are referred to by    *)
(* their index.  Lines, Edges and Sides are records holding Point          *)
(* references.  A Dim is modelled by its dist; its label never takes part  *)
(* in a computation.                                                       *)
(***************************************************************************)
EXTENDS Integers, Sequences, FiniteSets, TLC

VARIABLES
    pc,        \* position of the program: which call is running, or "idle"
    args,      \* the arguments of the constructor call the program makes
    heap,      \* every Point object created so far, by reference
    box,       \* the Box's own fields and the locals of Box.create
    sides,     \* panel name -> Side object (its fields as set so far)
    cur,       \* position inside Box.create / Side.create
    raised,    \* the exception the last call ended with, or "none"
    calls,     \* the calls made on the finished objects, with what they returned
    calc,      \* the call of calc_tab_num_and_length under test
    threads    \* thread -> its own program state, where two threads run

vars == <<pc, args, heap, box, sides, cur, raised, calls, calc, threads>>

\* Python's None (and the False default of an optional argument)
None == [none |-> TRUE]

\* The one element of a one-element set.  A step of a computation whose result
\* is used more than once is written Only({body : x \in {step}}): x is then
\* the step's value, computed once, for all of body.
Only(S) == CHOOSE v \in S : TRUE

(***************************************************************************)
(* Exact arithmetic                                                        *)
(***************************************************************************)
Abs(a) == IF a < 0 THEN -a ELSE a

RECURSIVE GCD(_, _)
GCD(a, b) == IF b = 0 THEN a ELSE GCD(b, a % b)

\* the number n/d, in lowest terms with a positive denominator
Rat(n, d) ==
    LET s == IF d < 0 THEN -1 ELSE 1
        g == GCD(Abs(n), Abs(d))
    IN  [n |-> (s * n) \div g, d |-> (s * d) \div g]

\* float(i) of an integer
Float(i) == [n |-> i, d |-> 1]

Zero == Float(0)

\* a + b
RAdd(a, b) == Rat(a.n * b.d + b.n * a.d, a.d * b.d)

\* -a
RNeg(a) == [n |-> -a.n, d |-> a.d]

\* a - b
RSub(a, b) == RAdd(a, RNeg(b))

\* a * k for an integer k
RMul(a, k) == Rat(a.n * k, a.d)

\* a / k for an integer k # 0
RDiv(a, k) == Rat(a.n, a.d * k)

\* a / b for a number b # 0
RQuot(a, b) == Rat(a.n * b.d, a.d * b.n)

\* a < b
RLess(a, b) == a.n * b.d < b.n * a.d

\* a <= b
RLeq(a, b) == a.n * b.d <= b.n * a.d

\* a // k for an integer k > 0: the floor of a / k
RFloorDiv(a, k) == a.n \div (a.d * k)

(***************************************************************************)
(* geometry.py: Point and Line                                             *)
(***************************************************************************)
\* Point(x, y): a new object on the heap
Point(h, x, y) == [heap |-> Append(h, [x |-> x, y |-> y]), ref |-> Len(h) + 1]

\* Line(source, dest, is_construction, length); length is <<dist>> or <<>> (None)
Line(source, dest, is_construction, length) ==
    [source |-> source, dest |-> dest,
     is_construction |-> is_construction, length |-> length]

\* Point.draw_horiz: dest is the new Point, the Line goes from self to dest
draw_horiz(h, self, dist_x, is_construction) ==
    [heap |-> Point(h, RAdd(h[self].x, dist_x), h[self].y).heap,
     line |-> Line(self, Len(h) + 1, is_construction, <<dist_x>>)]

\* Point.draw_vert
draw_vert(h, self, dist_y, is_construction) ==
    [heap |-> Point(h, h[self].x, RAdd(h[self].y, dist_y)).heap,
     line |-> Line(self, Len(h) + 1, is_construction, <<dist_y>>)]

\* the cosine and sine tables of Point.rotate
CosTable(degrees) == CASE degrees = 0 -> 1 [] degrees = 90 -> 0
                       [] degrees = 180 -> -1 [] degrees = 270 -> 0

SinTable(degrees) == CASE degrees = 0 -> 0 [] degrees = 90 -> 1
                       [] degrees = 180 -> 0 [] degrees = 270 -> -1

\* Point.rotate past its assertion: the new coordinates of p rotated about o
Point_rotate(p, degrees_in, o) ==
    LET degrees == degrees_in % 360
        cos == CosTable(degrees)
        sin == SinTable(degrees)
        dx == RSub(p.x, o.x)
        dy == RSub(p.y, o.y)
    IN  [x |-> RSub(RAdd(o.x, RMul(dx, cos)), RMul(dy, sin)),
         y |-> RAdd(RAdd(o.y, RMul(dx, sin)), RMul(dy, cos))]

\* a relative_to that moves the other Point by self and returns it
relative_to_moving_other(h, self, other) ==
    [heap |-> [h EXCEPT ![other] =
                  [x |-> RAdd(h[self].x, h[other].x),
                   y |-> RAdd(h[self].y, h[other].y)]],
     ref |-> other]

\* Point.relative_to: a new Point
relative_to(h, self, other) ==
    Point(h, RAdd(h[self].x, h[other].x), RAdd(h[self].y, h[other].y))

\* a shift in the wrong direction: down by dist_y
shift_down(h, line, dist_y) ==
    [heap |-> Point(Point(h, h[line.source].x,
                          RSub(h[line.source].y, dist_y)).heap,
                    h[line.dest].x, RSub(h[line.dest].y, dist_y)).heap,
     line |-> Line(Len(h) + 1, Len(h) + 2, line.is_construction, line.length)]

\* Line.shift_vertically: a new Line on two new Points
shift_vertically(h, line, dist_y) ==
    [heap |-> Point(Point(h, h[line.source].x,
                          RAdd(h[line.source].y, dist_y)).heap,
                    h[line.dest].x, RAdd(h[line.dest].y, dist_y)).heap,
     line |-> Line(Len(h) + 1, Len(h) + 2, line.is_construction, line.length)]

\* a shift that leaves the flag as it is
shift_keeping_constr(h, line, dist_y) == shift_vertically(h, line, dist_y)

\* Line.toggle_constr_and_shift_vertically
toggle_constr_and_shift_vertically(h, line, dist_y) ==
    Only({[heap |-> s.heap,
           line |-> [s.line EXCEPT !.is_construction = ~s.line.is_construction]]
          : s \in {shift_vertically(h, line, dist_y)}})

\* Line.coords_for_plot: [[source.x, dest.x], [source.y, dest.y]]
coords_for_plot(h, line) ==
    <<h[line.source].x, h[line.dest].x, h[line.source].y, h[line.dest].y>>

(***************************************************************************)
(* box.py: Edge                                                            *)
(***************************************************************************)
\* EdgeInfo(is_wide, is_tall, notch_width, notch_height, notch_height_other,
\* notch_count)
EdgeInfo(is_wide, is_tall, notch_width, notch_height, notch_height_other, notch_count) ==
    [is_wide |-> is_wide, is_tall |-> is_tall, notch_width |-> notch_width,
     notch_height |-> notch_height,
     notch_height_other |-> notch_height_other, notch_count |-> notch_count]

\* the loop "for _notch in range(self.notch_count)" of Edge.create, with k
\* iterations left: two more outer segments per iteration
RECURSIVE NotchLoop(_, _, _, _, _)
NotchLoop(h, outer_lines, next_edge, info, k) ==
    IF k <= 0
    THEN [heap |-> h, outer_lines |-> outer_lines, next_edge |-> next_edge]
    ELSE Only({Only({NotchLoop(b.heap, outer_lines \o <<a.line, b.line>>,
                               b.line, info, k - 1)
                     : b \in {draw_horiz(a.heap, a.line.dest, info.notch_width,
                                         ~info.is_tall)}})
               : a \in {draw_horiz(h, next_edge.dest, info.notch_width,
                                   info.is_tall)}})

\* the list comprehension that builds inner_lines from outer_lines[i..]
RECURSIVE InnerLines(_, _, _, _, _)
InnerLines(h, outer_lines, i, dist_y, acc) ==
    IF i > Len(outer_lines)
    THEN [heap |-> h, lines |-> acc]
    ELSE Only({InnerLines(t.heap, outer_lines, i + 1, dist_y,
                          Append(acc, t.line))
               : t \in {toggle_constr_and_shift_vertically(h, outer_lines[i],
                                                           dist_y)}})

\* a connector drawn when each of the two pairs has a real line
VertLineEitherOfEach(inner_lines, outer_lines, index) ==
    LET draw_gap ==
            /\ (~inner_lines[index].is_construction
                \/ ~outer_lines[index + 1].is_construction)
            /\ (~outer_lines[index].is_construction
                \/ ~inner_lines[index + 1].is_construction)
    IN  Line(inner_lines[index].dest, outer_lines[index].dest, ~draw_gap, <<>>)

\* the connector at position index (counted from 1) of Edge.create
VertLine(inner_lines, outer_lines, index) ==
    LET draw_gap ==
            \/ (~inner_lines[index].is_construction
                /\ ~outer_lines[index + 1].is_construction)
            \/ (~outer_lines[index].is_construction
                /\ ~inner_lines[index + 1].is_construction)
    IN  Line(inner_lines[index].dest, outer_lines[index].dest, ~draw_gap, <<>>)

\* Python's order on the keys [[source.x, dest.x], [source.y, dest.y]]
KeyLess(k1, k2) ==
    \E i \in 1..4 : /\ RLess(k1[i], k2[i])
                    /\ \A j \in 1..(i - 1) : k1[j] = k2[j]

\* a sort left out: the lines in the order of the concatenation
sorted_never(h, unsorted_lines) == unsorted_lines

\* sorted(): a stable sort; line goes after every line whose key is <= its own
SortedInsert(h, sorted, line) ==
    LET later == {i \in 1..Len(sorted) :
                    KeyLess(coords_for_plot(h, line),
                            coords_for_plot(h, sorted[i]))}
        at == IF later = {} THEN Len(sorted) + 1
              ELSE CHOOSE i \in later : \A j \in later : i <= j
    IN  SubSeq(sorted, 1, at - 1) \o <<line>> \o SubSeq(sorted, at, Len(sorted))

RECURSIVE SortedFrom(_, _, _, _)
SortedFrom(h, unsorted, i, acc) ==
    IF i > Len(unsorted) THEN acc
    ELSE Only({SortedFrom(h, unsorted, i + 1, s)
               : s \in {SortedInsert(h, acc, unsorted[i])}})

\* sorted(unsorted_lines, key=lambda x: x.coords_for_plot())
sorted(h, unsorted_lines) == SortedFrom(h, unsorted_lines, 1, <<>>)

\* an outer portion whose end segments are real as soon as the side is wide
\* or tall
Edge_outer_either(h, edge_info, bb_left) ==
    LET outer_line_extend_edges == edge_info.is_wide \/ edge_info.is_tall
    IN  Only({Only({Only({Only({
            [heap |-> outer_edge_r.heap, outer_edge_l |-> outer_edge_l.line,
             outer_lines |-> loop.outer_lines,
             outer_edge_r |-> outer_edge_r.line]
            : outer_edge_r \in
                {draw_horiz(loop.heap, loop.next_edge.dest,
                            edge_info.notch_height_other,
                            ~outer_line_extend_edges)}})
            : loop \in
                {NotchLoop(first.heap, <<first.line>>, first.line, edge_info,
                           edge_info.notch_count)}})
            : first \in
                {draw_horiz(outer_edge_l.heap, outer_edge_l.line.dest,
                            edge_info.notch_width, ~edge_info.is_tall)}})
            : outer_edge_l \in
                {draw_horiz(h, bb_left, edge_info.notch_height_other,
                            ~outer_line_extend_edges)}})

\* Edge.create, "Draw outer horizontal portion of Edge": the heap after
\* it, outer_edge_l, the outer_lines of the notches, and outer_edge_r
Edge_outer(h, edge_info, bb_left) ==
    LET outer_line_extend_edges == edge_info.is_wide /\ edge_info.is_tall
    IN  Only({Only({Only({Only({
            [heap |-> outer_edge_r.heap, outer_edge_l |-> outer_edge_l.line,
             outer_lines |-> loop.outer_lines,
             outer_edge_r |-> outer_edge_r.line]
            : outer_edge_r \in
                {draw_horiz(loop.heap, loop.next_edge.dest,
                            edge_info.notch_height_other,
                            ~outer_line_extend_edges)}})
            : loop \in
                {NotchLoop(first.heap, <<first.line>>, first.line, edge_info,
                           edge_info.notch_count)}})
            : first \in
                {draw_horiz(outer_edge_l.heap, outer_edge_l.line.dest,
                            edge_info.notch_width, ~edge_info.is_tall)}})
            : outer_edge_l \in
                {draw_horiz(h, bb_left, edge_info.notch_height_other,
                            ~outer_line_extend_edges)}})

\* Edge.create, "Draw inner segments": the heap after it, inner_edge_l, the
\* inner_lines of the notches, and inner_edge_r
Edge_inner(edge_info, outer) ==
    LET inner_line_extend_edges == edge_info.is_wide /\ ~edge_info.is_tall
    IN  Only({Only({Only({
            [heap |-> shift_r.heap,
             inner_edge_l |-> [shift_l.line EXCEPT
                                 !.is_construction = ~inner_line_extend_edges],
             inner_lines |-> inner.lines,
             inner_edge_r |-> [shift_r.line EXCEPT
                                 !.is_construction = ~inner_line_extend_edges]]
            : shift_r \in
                {shift_vertically(inner.heap, outer.outer_edge_r,
                                  edge_info.notch_height)}})
            : inner \in
                {InnerLines(shift_l.heap, outer.outer_lines, 1,
                            edge_info.notch_height, <<>>)}})
            : shift_l \in
                {shift_vertically(outer.heap, outer.outer_edge_l,
                                  edge_info.notch_height)}})

\* a loop over the connectors that stops one position early
Edge_vert_short(inner_lines, outer_lines) ==
    [index \in 1..(Len(inner_lines) - 2) |->
        VertLine(inner_lines, outer_lines, index)]

\* Edge.create, "Draw a vertical portion of the edge": vert_lines
Edge_vert(inner_lines, outer_lines) ==
    [index \in 1..(Len(inner_lines) - 1) |->
        VertLine(inner_lines, outer_lines, index)]

\* Edge.__init__'s assignments and the end of Edge.create: the merged lists,
\* the connectors and the sorted lines.  The locals outer_lines, inner_lines
\* and vert_lines are kept with the Edge so that properties can speak about
\* them.
Edge_lines(h, edge_info, bb_left, outer_lines, inner_lines) ==
    Only({[bb_left |-> bb_left,
           notch_width |-> edge_info.notch_width,
           notch_height |-> edge_info.notch_height,
           notch_count |-> edge_info.notch_count,
           notch_height_other |-> edge_info.notch_height_other,
           is_wide |-> edge_info.is_wide,
           is_tall |-> edge_info.is_tall,
           bb_right |-> outer_lines[Len(outer_lines)].dest,
           inner_bb_left |-> inner_lines[1].dest,
           lines |-> sorted(h, inner_lines \o outer_lines \o vert_lines),
           outer_lines |-> outer_lines,
           inner_lines |-> inner_lines,
           vert_lines |-> vert_lines]
          : vert_lines \in {Edge_vert(inner_lines, outer_lines)}})

\* Edge.create: the heap and the Edge after __init__'s assignments and create()
Edge_create(h, edge_info, bb_left) ==
    Only({Only({Only({
        [heap |-> inner.heap, edge |-> edge]
        : edge \in
            {Edge_lines(inner.heap, edge_info, bb_left,
                        <<outer.outer_edge_l>> \o outer.outer_lines
                            \o <<outer.outer_edge_r>>,
                        <<inner.inner_edge_l>> \o inner.inner_lines
                            \o <<inner.inner_edge_r>>)}})
        : inner \in {Edge_inner(edge_info, outer)}})
        : outer \in {Edge_outer(h, edge_info, bb_left)}})

\* the distinct Points of a list of lines (the set built in Edge.rotate)
LinePoints(lines) ==
    UNION {{lines[i].source, lines[i].dest} : i \in DOMAIN lines}

\* a rotate that turns the edge by one quarter turn at most: the else branch
\* without its second call
Edge_rotate_once(h, self, degrees_in) ==
    IF degrees_in % 360 = 0 THEN h
    ELSE Only({[p \in DOMAIN h |->
                  IF p \in points
                  THEN Point_rotate(h[p], 90, h[self.bb_left])
                  ELSE h[p]]
               : points \in {LinePoints(self.lines)}})

\* a rotate that turns every Point there is, not those of its own lines
Edge_rotate_everything(h, self, degrees_in) ==
    [p \in DOMAIN h |-> Point_rotate(h[p], degrees_in, h[self.bb_left])]

\* Edge.rotate past its assertion: the heap after rotating the edge's lines
\* counter clockwise about bb_left.  Each distinct Point is rotated once;
\* bb_left is itself among them and is its own image, so the order in which
\* the set is walked does not show.
RECURSIVE Edge_rotate(_, _, _)
Edge_rotate(h, self, degrees_in) ==
    LET degrees == degrees_in % 360
    IN  IF degrees = 0 THEN h
        ELSE IF degrees = 90
        THEN Only({[p \in DOMAIN h |->
                      IF p \in points
                      THEN Point_rotate(h[p], degrees, h[self.bb_left])
                      ELSE h[p]]
                   : points \in {LinePoints(self.lines)}})
        ELSE Only({Edge_rotate(h90, self, degrees - 90)
                   : h90 \in {Edge_rotate(h, self, 90)}})

\* a rotate that makes its lines anew, from their end points alone
Edge_rotate_relining(h, self, degrees_in) ==
    IF degrees_in % 90 # 0
    THEN [heap |-> h, edge |-> self, raised |-> "AssertionError"]
    ELSE [heap |-> Edge_rotate(h, self, degrees_in),
          edge |-> [self EXCEPT !.lines =
                       [i \in DOMAIN self.lines |->
                           Line(self.lines[i].source, self.lines[i].dest,
                                FALSE, <<>>)]],
          raised |-> "none"]

\* Edge.rotate as a call: its assertion, then the rotation; the heap and the
\* Edge after it
Edge_rotate_call(h, self, degrees_in) ==
    IF degrees_in % 90 # 0
    THEN [heap |-> h, edge |-> self, raised |-> "AssertionError"]
    ELSE [heap |-> Edge_rotate(h, self, degrees_in), edge |-> self,
          raised |-> "none"]

\* Edge(edge_info, bb_left, rotate): create, then rotate
Edge(h, edge_info, bb_left, rotate) ==
    Only({[heap |-> Edge_rotate(c.heap, c.edge, rotate), edge |-> c.edge]
          : c \in {Edge_create(h, edge_info, bb_left)}})

(***************************************************************************)
(* box.py: Side                                                            *)
(***************************************************************************)
SideInfo(bb_sw_corner, is_wide, is_tall, ew_notch_width, ew_notch_height, ew_notch_count, ns_notch_width, ns_notch_height, ns_notch_count) ==
    [bb_sw_corner |-> bb_sw_corner, is_wide |-> is_wide, is_tall |-> is_tall,
     ew_notch_width |-> ew_notch_width, ew_notch_height |-> ew_notch_height,
     ew_notch_count |-> ew_notch_count, ns_notch_width |-> ns_notch_width,
     ns_notch_height |-> ns_notch_height, ns_notch_count |-> ns_notch_count]

\* an EdgeInfo for the vertical edges with the two notch heights exchanged
ns_edge_info_exchanged(side_info) ==
    EdgeInfo(side_info.is_tall, side_info.is_wide, side_info.ns_notch_width,
             side_info.ew_notch_height, side_info.ns_notch_height,
             side_info.ns_notch_count)

\* Side.create: the EdgeInfo of the vertical (east, west) edges
ns_edge_info(side_info) ==
    EdgeInfo(side_info.is_tall, side_info.is_wide, side_info.ns_notch_width,
             side_info.ns_notch_height, side_info.ew_notch_height,
             side_info.ns_notch_count)

\* an EdgeInfo for the horizontal edges that takes the panel's two flags in
\* the order the vertical edges take them
ew_edge_info_flags_exchanged(side_info) ==
    EdgeInfo(side_info.is_tall, side_info.is_wide, side_info.ew_notch_width,
             side_info.ew_notch_height, side_info.ns_notch_height,
             side_info.ew_notch_count)

\* Side.create: the EdgeInfo of the horizontal (south, north) edges
ew_edge_info(side_info) ==
    EdgeInfo(side_info.is_wide, side_info.is_tall, side_info.ew_notch_width,
             side_info.ew_notch_height, side_info.ns_notch_height,
             side_info.ew_notch_count)

\* the four Edge attributes of a Side, in the order Side.create builds them
FaceNames == <<"south_face", "east_face", "north_face", "west_face">>

\* Side.__init__ up to the call of create()
Side_init(side_info) ==
    [side_info |-> side_info, west_face |-> None, north_face |-> None,
     east_face |-> None, south_face |-> None, bounding_box |-> None,
     inner_bounding_box |-> None, cutouts |-> None]

\* Side.create: the EdgeInfo of the i-th edge built
FaceInfo(self, i) ==
    IF i \in {1, 3} THEN ew_edge_info(self.side_info)
    ELSE ns_edge_info(self.side_info)

\* Side.create: the starting corner of the i-th edge built
FaceLeft(self, i) ==
    IF i = 1 THEN self.side_info.bb_sw_corner
    ELSE self[FaceNames[i - 1]].bb_right

\* Side.create: the rotation of the i-th edge built
FaceRotate(i) == 90 * (i - 1)

\* Side.create: the statement that builds the i-th edge
Side_face(h, self, i) ==
    Only({[heap |-> e.heap, side |-> [self EXCEPT ![FaceNames[i]] = e.edge]]
          : e \in {Edge(h, FaceInfo(self, i), FaceLeft(self, i),
                        FaceRotate(i))}})

\* Side.create: inner_bounding_box
Side_inner_bounding_box(self) ==
    [sw |-> self.south_face.inner_bb_left, se |-> self.east_face.inner_bb_left,
     ne |-> self.north_face.inner_bb_left, nw |-> self.west_face.inner_bb_left]

\* Side.create: bounding_box
Side_bounding_box(self) ==
    [sw |-> self.side_info.bb_sw_corner, se |-> self.south_face.bb_right,
     ne |-> self.east_face.bb_right, nw |-> self.north_face.bb_right]

\* the end of Side.create and of Side.__init__
Side_finish(self) ==
    [self EXCEPT !.inner_bounding_box = Side_inner_bounding_box(self),
                 !.bounding_box = Side_bounding_box(self),
                 !.cutouts = <<>>]

\* Side.all_lines
all_lines(self) ==
    self.south_face.lines \o self.east_face.lines
    \o self.north_face.lines \o self.west_face.lines

\* Side.edge_line_list
edge_line_list(self) ==
    <<self.south_face.lines, self.east_face.lines, self.north_face.lines,
      self.west_face.lines>>

\* "'n' in bb_inner": a string is modelled as the sequence of its letters
HasLetter(bb_inner, letter) == \E i \in DOMAIN bb_inner : bb_inner[i] = letter

\* the key of inner_bounding_box a string names, "" when it names none
\* (self.inner_bounding_box[bb_inner] then raises KeyError)
CornerKey(bb_inner) ==
    CASE bb_inner = <<"s", "w">> -> "sw"
      [] bb_inner = <<"s", "e">> -> "se"
      [] bb_inner = <<"n", "e">> -> "ne"
      [] bb_inner = <<"n", "w">> -> "nw"
      [] OTHER -> ""

\* a copy of a corner with no sign changed
MirrorCornerNever(corner, bb_inner) == [x |-> corner.x, y |-> corner.y]

\* add_cutout: the coordinates of the copy of a corner after the sign changes
MirrorCorner(corner, bb_inner) ==
    [x |-> IF HasLetter(bb_inner, "e") THEN RNeg(corner.x) ELSE corner.x,
     y |-> IF HasLetter(bb_inner, "n") THEN RNeg(corner.y) ELSE corner.y]

\* a flip that is never made
FlipCornerNever(h, c, flipxy) == [heap |-> h, ref |-> c]

\* add_cutout: "if flipxy: c = Point(c.y, c.x)"
FlipCorner(h, c, flipxy) ==
    IF flipxy THEN Point(h, h[c].y, h[c].x) ELSE [heap |-> h, ref |-> c]

\* Point.rotate in place, past its assertion
RotateInPlace(h, p, degrees_in, around) ==
    [h EXCEPT ![p] = Point_rotate(h[p], degrees_in, h[around])]

\* an add_cutout that changes the signs on the caller's corners themselves
\* ("c1 = corner_1" in place of the copy)
CutoutCopiesAliasing(h, corner_1, corner_2, bb_inner) ==
    [h EXCEPT ![corner_1] = MirrorCorner(h[corner_1], bb_inner),
              ![corner_2] = MirrorCorner(h[corner_2], bb_inner)]
    \o <<MirrorCorner(h[corner_1], bb_inner),
         MirrorCorner(h[corner_2], bb_inner)>>

\* add_cutout: "c1 = copy.copy(corner_1)", "c2 = ..." and the sign
\* changes for 'n' and 'e': the heap with the two copies
CutoutCopies(h, corner_1, corner_2, bb_inner) ==
    h \o <<MirrorCorner(h[corner_1], bb_inner),
           MirrorCorner(h[corner_2], bb_inner)>>

\* an add_cutout that keeps only the cutout of the last call
CutoutPlaceReplacing(h, self, kind, f1, f2, bb, name, rotate) ==
    Only({Only({
        IF rotate % 90 # 0
        THEN [heap |-> c2.heap, side |-> self, raised |-> "AssertionError"]
        ELSE [heap |-> RotateInPlace(RotateInPlace(c2.heap, c1.ref, rotate, bb),
                                     c2.ref, rotate, bb),
              side |-> [self EXCEPT !.cutouts =
                           <<[kind |-> kind, name |-> name,
                              c1 |-> c1.ref, c2 |-> c2.ref]>>],
              raised |-> "none"]
        : c2 \in {relative_to(c1.heap, f2, bb)}})
        : c1 \in {relative_to(h, f1, bb)}})

\* an add_cutout that appends its entry before it rotates the corners
CutoutPlaceAppendingFirst(h, self, kind, f1, f2, bb, name, rotate) ==
    Only({Only({
        IF rotate % 90 # 0
        THEN [heap |-> c2.heap,
              side |-> [self EXCEPT !.cutouts =
                           Append(@, [kind |-> kind, name |-> name,
                                      c1 |-> c1.ref, c2 |-> c2.ref])],
              raised |-> "AssertionError"]
        ELSE [heap |-> RotateInPlace(RotateInPlace(c2.heap, c1.ref, rotate, bb),
                                     c2.ref, rotate, bb),
              side |-> [self EXCEPT !.cutouts =
                           Append(@, [kind |-> kind, name |-> name,
                                      c1 |-> c1.ref, c2 |-> c2.ref])],
              raised |-> "none"]
        : c2 \in {relative_to(c1.heap, f2, bb)}})
        : c1 \in {relative_to(h, f1, bb)}})

\* add_cutout from "c1 = c1.relative_to(bb)" on: the two stored corners are
\* new Points, rotated in place about bb
CutoutPlace(h, self, kind, f1, f2, bb, name, rotate) ==
    Only({Only({
        IF rotate % 90 # 0
        THEN [heap |-> c2.heap, side |-> self, raised |-> "AssertionError"]
        ELSE [heap |-> RotateInPlace(RotateInPlace(c2.heap, c1.ref, rotate, bb),
                                     c2.ref, rotate, bb),
              side |-> [self EXCEPT !.cutouts =
                           Append(@, [kind |-> kind, name |-> name,
                                      c1 |-> c1.ref, c2 |-> c2.ref])],
              raised |-> "none"]
        : c2 \in {relative_to(c1.heap, f2, bb)}})
        : c1 \in {relative_to(h, f1, bb)}})

\* a rotate that takes the nearest multiple of 90 instead of asserting
Point_rotate_rounding(h, p, degrees_in, around) ==
    [heap |-> RotateInPlace(h, p, 90 * ((degrees_in + 45) \div 90), around),
     raised |-> "none"]

\* Point.rotate as a call: its assertion, then the rotation in place
Point_rotate_call(h, p, degrees_in, around) ==
    IF degrees_in % 90 # 0
    THEN [heap |-> h, raised |-> "AssertionError"]
    ELSE [heap |-> RotateInPlace(h, p, degrees_in, around), raised |-> "none"]

\* Side.add_cutout: the heap and the Side after the call, and the exception
\* it ended with
add_cutout(h, self, kind, corner_1, corner_2, bb_inner, name, rotate, flipxy) ==
    Only({Only({Only({
        IF CornerKey(bb_inner) = ""
        THEN [heap |-> f2.heap, side |-> self, raised |-> "KeyError"]
        ELSE CutoutPlace(f2.heap, self, kind, f1.ref, f2.ref,
                         self.inner_bounding_box[CornerKey(bb_inner)], name,
                         rotate)
        : f2 \in {FlipCorner(f1.heap, Len(h) + 2, flipxy)}})
        : f1 \in {FlipCorner(copies, Len(h) + 1, flipxy)}})
        : copies \in {CutoutCopies(h, corner_1, corner_2, bb_inner)}})

(***************************************************************************)
(* box.py: Box                                                             *)
(***************************************************************************)
\* a rounding to the odd number above: "x if x % 2 == 1 else x + 1"
OddAbove(tab_upper_bound) ==
    IF tab_upper_bound % 2 = 1 THEN tab_upper_bound ELSE tab_upper_bound + 1

\* "x if x % 2 == 1 else x - 1" of calc_tab_num_and_length
OddBelow(tab_upper_bound) ==
    IF tab_upper_bound % 2 = 1 THEN tab_upper_bound ELSE tab_upper_bound - 1

\* num_tabs_2 / num_tabs_3 of calc_tab_num_and_length, for k = 2 / k = 3
NumTabs(dim, thickness, k) ==
    LET segment_upper_bound == RFloorDiv(RQuot(dim, thickness), k)
        tab_upper_bound == (segment_upper_bound - 1) \div 2
    IN  OddBelow(tab_upper_bound)

\* a choice that takes the 3x rule as soon as it gives one tab
ChooseTabsFromOne(num_tabs_3, num_tabs_2) ==
    IF num_tabs_3 >= 1 THEN num_tabs_3 ELSE num_tabs_2

\* the choice between the two rules
ChooseTabs(num_tabs_3, num_tabs_2) ==
    IF num_tabs_3 >= 3 THEN num_tabs_3 ELSE num_tabs_2

\* a mis-written segment length: dim / (2 * num_tabs)
SegmentLengthPerPair(dim, num_tabs) == RDiv(dim, 2 * num_tabs)

\* the segment length returned: dim / (2 * num_tabs + 1)
SegmentLength(dim, num_tabs) == RDiv(dim, 2 * num_tabs + 1)

\* Box.calc_tab_num_and_length for thickness # 0 (thickness = 0 raises)
calc_tab_num_and_length(dim, thickness) ==
    LET num_tabs_2 == NumTabs(dim, thickness, 2)
        num_tabs_3 == NumTabs(dim, thickness, 3)
        num_tabs == ChooseTabs(num_tabs_3, num_tabs_2)
    IN  [tabs |-> num_tabs, length |-> SegmentLength(dim, num_tabs)]

\* the order in which Box.create builds the sides, and Box.sides() names them
BoxSides == <<"bottom", "right", "upper", "left", "top", "lower">>

\* flags that make upper and lower short, like the bottom they join
SideFlagsUpperShort(name) ==
    CASE name \in {"bottom", "top", "upper", "lower"} ->
            [is_wide |-> FALSE, is_tall |-> FALSE]
      [] name \in {"right", "left"} -> [is_wide |-> TRUE, is_tall |-> TRUE]

\* Box.create: is_wide and is_tall of each side
SideFlags(name) ==
    CASE name \in {"bottom", "top"} -> [is_wide |-> FALSE, is_tall |-> FALSE]
      [] name \in {"right", "left"} -> [is_wide |-> TRUE, is_tall |-> TRUE]
      [] name \in {"upper", "lower"} -> [is_wide |-> FALSE, is_tall |-> TRUE]

\* dimensions that give the top the height's tabs on its horizontal edges
SideDimsTopHigh(name) ==
    CASE name = "bottom" -> [ew |-> "w", ns |-> "d"]
      [] name \in {"right", "left", "top"} -> [ew |-> "h", ns |-> "d"]
      [] name \in {"upper", "lower"} -> [ew |-> "w", ns |-> "h"]

\* Box.create: which dimension's tabs run along a side's horizontal (ew)
\* and vertical (ns) edges
SideDims(name) ==
    CASE name \in {"bottom", "top"} -> [ew |-> "w", ns |-> "d"]
      [] name \in {"right", "left"} -> [ew |-> "h", ns |-> "d"]
      [] name \in {"upper", "lower"} -> [ew |-> "w", ns |-> "h"]

\* starting corners with the two thicknesses left out of the way back to the
\* left and lower panels
SideCornerThin(h, b, ss, name) ==
    LET back == RNeg(RAdd(b.spacing, b.height))
        spacing_line ==
            CASE name = "right" ->
                    draw_horiz(h, ss["bottom"].bounding_box.se, b.spacing, TRUE)
              [] name = "upper" ->
                    draw_vert(h, ss["bottom"].bounding_box.nw, b.spacing, TRUE)
              [] name = "left" ->
                    draw_horiz(h, ss["bottom"].bounding_box.sw, back, TRUE)
              [] name = "top" ->
                    draw_horiz(h, ss["right"].bounding_box.se, b.spacing, TRUE)
              [] name = "lower" ->
                    draw_vert(h, ss["bottom"].bounding_box.sw, back, TRUE)
    IN  IF name = "bottom" THEN [heap |-> h, ref |-> b.bb_sw_point]
        ELSE [heap |-> spacing_line.heap, ref |-> spacing_line.line.dest]

\* Box.create: the spacing_line.dest a side starts from (bottom starts from
\* bb_sw_point and draws no spacing line)
SideCorner(h, b, ss, name) ==
    LET back == RNeg(RAdd(RAdd(b.spacing, b.height), RMul(b.thickness, 2)))
        spacing_line ==
            CASE name = "right" ->
                    draw_horiz(h, ss["bottom"].bounding_box.se, b.spacing, TRUE)
              [] name = "upper" ->
                    draw_vert(h, ss["bottom"].bounding_box.nw, b.spacing, TRUE)
              [] name = "left" ->
                    draw_horiz(h, ss["bottom"].bounding_box.sw, back, TRUE)
              [] name = "top" ->
                    draw_horiz(h, ss["right"].bounding_box.se, b.spacing, TRUE)
              [] name = "lower" ->
                    draw_vert(h, ss["bottom"].bounding_box.sw, back, TRUE)
    IN  IF name = "bottom" THEN [heap |-> h, ref |-> b.bb_sw_point]
        ELSE [heap |-> spacing_line.heap, ref |-> spacing_line.line.dest]

\* Box.create: the SideInfo of a side, given its south-west corner
BoxSideInfo(b, name, corner) ==
    SideInfo(corner, SideFlags(name).is_wide, SideFlags(name).is_tall,
             b.tab_width[SideDims(name).ew], b.thickness,
             b.tab_num[SideDims(name).ew],
             b.tab_width[SideDims(name).ns], b.thickness,
             b.tab_num[SideDims(name).ns])

(***************************************************************************)
(* The program: the caller's Points, one constructor call (a Box, or a     *)
(* Side on its own), then calls on the finished panels.                    *)
(***************************************************************************)
\* the Point objects the caller creates before it calls the constructor:
\* Point(0, 0), Point(5, 12), Point(12.8, 19.05 + 12), Point(1, 1), Point(2, 3)
UserPoints ==
    <<[x |-> Float(0), y |-> Float(0)],
      [x |-> Float(5), y |-> Float(12)],
      [x |-> Rat(64, 5), y |-> Rat(621, 20)],
      [x |-> Float(1), y |-> Float(1)],
      [x |-> Float(2), y |-> Float(3)]>>

BoxArgs(width, height, depth, thickness, spacing, bb_sw_point) ==
    [kind |-> "Box", width |-> width, height |-> height, depth |-> depth,
     thickness |-> thickness, spacing |-> spacing, bb_sw_point |-> bb_sw_point]

\* the Box(...) calls explored; bb_sw_point is a reference to a caller's Point
\* or None (the default)
BoxCalls ==
    {BoxArgs(Float(100), Float(50), Float(65), Float(3), Float(2), <<1>>),
     BoxArgs(Float(21), Float(10), Rat(27, 2), Rat(3, 2), Rat(1, 2), <<4>>),
     BoxArgs(Float(13), Float(12), Float(14), Float(2), Float(0), <<>>),
     BoxArgs(Float(7), Float(8), Float(9), Float(2), Float(1), <<>>),
     BoxArgs(Float(10), Float(10), Float(10), Float(0), Float(1), <<>>)}

\* the Side(SideInfo(...)) calls explored: every is_wide/is_tall pair, the
\* two directions with different notch widths, heights and counts
SideCalls ==
    {[kind |-> "Side",
      side_info |-> SideInfo(4, is_wide, is_tall, Float(4), Float(2), 1,
                             Rat(7, 2), Float(1), ns_notch_count)] :
        is_wide \in BOOLEAN, is_tall \in BOOLEAN, ns_notch_count \in {0, 2}}

NoBox == [none |-> TRUE]

NoCalc == [none |-> TRUE]

Init ==
    /\ pc = "start"
    /\ args \in BoxCalls \cup SideCalls
    /\ heap = UserPoints
    /\ box = NoBox
    /\ sides = <<>>
    /\ cur = [side |-> "", face |-> 0]
    /\ raised = "none"
    /\ calls = <<>>
    /\ calc = NoCalc
    /\ threads = <<>>

\* Box.__init__ and the three calc_tab_num_and_length calls of Box.create
Box_init(h, a) ==
    LET sw == IF a.bb_sw_point = <<>> THEN Point(h, Float(0), Float(0))
              ELSE [heap |-> h, ref |-> a.bb_sw_point[1]]
        w == calc_tab_num_and_length(a.width, a.thickness)
        hh == calc_tab_num_and_length(a.height, a.thickness)
        d == calc_tab_num_and_length(a.depth, a.thickness)
    IN  [heap |-> sw.heap,
         box |-> [width |-> a.width, height |-> a.height, depth |-> a.depth,
                  thickness |-> a.thickness, spacing |-> a.spacing,
                  bb_sw_point |-> sw.ref,
                  tab_num |-> [w |-> w.tabs, h |-> hh.tabs, d |-> d.tabs],
                  tab_width |-> [w |-> w.length, h |-> hh.length,
                                 d |-> d.length]]]

\* Box(...): __init__, then create() up to the first side.  A thickness of 0
\* ends the call with ZeroDivisionError in calc_tab_num_and_length.
BoxCall ==
    /\ pc = "start"
    /\ args.kind = "Box"
    /\ IF args.thickness = Zero
       THEN /\ pc' = "failed"
            /\ raised' = "ZeroDivisionError"
            /\ heap' = IF args.bb_sw_point = <<>>
                       THEN Point(heap, Float(0), Float(0)).heap ELSE heap
            /\ UNCHANGED <<box, cur>>
       ELSE /\ pc' = "Box.create"
            /\ \E b \in {Box_init(heap, args)} :
                  /\ heap' = b.heap
                  /\ box' = b.box
            /\ cur' = [side |-> BoxSides[1], face |-> 0]
            /\ UNCHANGED raised
    /\ UNCHANGED <<args, sides, calls, calc, threads>>

\* Box.create: the next side's spacing line and SideInfo, and Side.__init__
\* up to create()
BoxSide ==
    /\ pc = "Box.create"
    /\ cur.face = 0
    /\ \E c \in {SideCorner(heap, box, sides, cur.side)} :
          /\ heap' = c.heap
          /\ sides' = sides @@
                (cur.side :> Side_init(BoxSideInfo(box, cur.side, c.ref)))
    /\ cur' = [cur EXCEPT !.face = 1]
    /\ UNCHANGED <<pc, args, box, raised, calls, calc, threads>>

\* Side(side_info) called by the program itself: Side.__init__ up to create()
SideCall ==
    /\ pc = "start"
    /\ args.kind = "Side"
    /\ pc' = "Side.create"
    /\ sides' = ("side" :> Side_init(args.side_info))
    /\ cur' = [side |-> "side", face |-> 1]
    /\ UNCHANGED <<args, heap, box, raised, calls, calc, threads>>

\* Side.create: one Edge(...) statement
EdgeStep ==
    /\ pc \in {"Box.create", "Side.create"}
    /\ cur.face \in 1..4
    /\ \E f \in {Side_face(heap, sides[cur.side], cur.face)} :
          /\ heap' = f.heap
          /\ sides' = [sides EXCEPT ![cur.side] = f.side]
    /\ cur' = [cur EXCEPT !.face = cur.face + 1]
    /\ UNCHANGED <<pc, args, box, raised, calls, calc, threads>>

\* the side Box.create builds after a given one ("" after the last)
NextSide(name) ==
    LET i == CHOOSE j \in 1..Len(BoxSides) : BoxSides[j] = name
    IN  IF i = Len(BoxSides) THEN "" ELSE BoxSides[i + 1]

\* Side.create: the two bounding boxes; Side.__init__: cutouts = []; then
\* back in the caller: Box.create goes on to its next side, or the
\* constructor call is over
SideDone ==
    /\ pc \in {"Box.create", "Side.create"}
    /\ cur.face = 5
    /\ sides' = [sides EXCEPT ![cur.side] = Side_finish(sides[cur.side])]
    /\ IF pc = "Box.create" /\ NextSide(cur.side) # ""
       THEN /\ cur' = [side |-> NextSide(cur.side), face |-> 0]
            /\ pc' = pc
       ELSE /\ cur' = [side |-> "", face |-> 0]
            /\ pc' = "idle"
    /\ UNCHANGED <<args, heap, box, raised, calls, calc, threads>>

\* add_cutout's arguments: (kind, name, corner_1, corner_2, bb_inner, rotate,
\* flipxy); name is <<>> for None, a corner is a reference to a caller's Point
CutoutArgs(kind, name, corner_1, corner_2, bb_inner, rotate, flipxy) ==
    [kind |-> kind, name |-> name, corner_1 |-> corner_1,
     corner_2 |-> corner_2, bb_inner |-> bb_inner, rotate |-> rotate,
     flipxy |-> flipxy]

\* the add_cutout calls explored in sequences, on every panel
CutoutCalls ==
    {CutoutArgs("circle", <<>>, 4, 5, <<"s", "w">>, 0, FALSE),
     CutoutArgs("rect", <<"switch">>, 2, 3, <<"n", "w">>, 0, FALSE),
     CutoutArgs("hex", <<>>, 5, 4, <<"s", "e">>, 90, TRUE)}

\* the add_cutout calls explored one at a time, on every panel: every
\* reference corner and a string that names none, every quarter turn and an
\* angle that is none, with and without flipxy
CutoutRequests ==
    {[kind |-> "circle", name |-> <<>>, corner_1 |-> 4, corner_2 |-> 5],
     [kind |-> "rect", name |-> <<"switch">>, corner_1 |-> 2, corner_2 |-> 3],
     [kind |-> "hex", name |-> <<>>, corner_1 |-> 5, corner_2 |-> 1]}

CornerNames ==
    {<<"s", "w">>, <<"s", "e">>, <<"n", "e">>, <<"n", "w">>}

AnyCutoutCalls ==
    {CutoutArgs(r.kind, r.name, r.corner_1, r.corner_2, bb_inner, rotate,
                flipxy) :
        r \in CutoutRequests,
        bb_inner \in CornerNames \cup {<<"n", "o", "r", "t", "h">>},
        rotate \in {0, 90, 180, 270, -90, 45},
        flipxy \in BOOLEAN}

\* how many calls the program makes on the finished panels
MaxCalls == 2

NoArgs == [none |-> TRUE]

\* the panels the next call can go to: the program picks a finished panel for
\* its first call and makes its later calls on the same one (no call touches
\* an object of another panel)
Panels == IF calls = <<>> THEN DOMAIN sides ELSE {calls[1].side}

\* side.add_cutout(...) on a finished panel, with arguments from a given set
AddCutoutFrom(inputs) ==
    \E name \in Panels, a \in inputs :
        \E r \in {add_cutout(heap, sides[name], a.kind, a.corner_1,
                             a.corner_2, a.bb_inner, a.name, a.rotate,
                             a.flipxy)} :
            /\ heap' = r.heap
            /\ sides' = [sides EXCEPT ![name] = r.side]
            /\ raised' = r.raised
            /\ calls' = Append(calls, [call |-> "add_cutout", side |-> name,
                                       args |-> a, raised |-> r.raised,
                                       value |-> <<>>])

\* one of a sequence of add_cutout calls
AddCutout ==
    /\ pc = "idle"
    /\ Len(calls) < MaxCalls
    /\ AddCutoutFrom(CutoutCalls)
    /\ UNCHANGED <<pc, args, box, cur, calc, threads>>

\* the program's only call on the finished panels: an add_cutout
AddCutoutOnce ==
    /\ pc = "idle"
    /\ calls = <<>>
    /\ AddCutoutFrom(AnyCutoutCalls)
    /\ UNCHANGED <<pc, args, box, cur, calc, threads>>

\* what the caller sees of a returned line: the Line and where its ends are
Seen(h, line) == [line |-> line, source |-> h[line.source],
                  dest |-> h[line.dest]]

\* an all_lines that hands its lists over: the Side keeps none of the south
\* edge's lines
all_lines_drain(h, self) ==
    [heap |-> h, side |-> [self EXCEPT !.south_face.lines = <<>>],
     value |-> all_lines(self)]

\* Side.all_lines as a call: the heap and the Side after it, and its value
all_lines_call(h, self) ==
    [heap |-> h, side |-> self, value |-> all_lines(self)]

\* side.all_lines() on a finished panel
AllLines ==
    /\ pc = "idle"
    /\ Len(calls) < MaxCalls
    /\ \E name \in Panels :
          \E r \in {all_lines_call(heap, sides[name])} :
              /\ heap' = r.heap
              /\ sides' = [sides EXCEPT ![name] = r.side]
              /\ calls' = Append(calls,
                    [call |-> "all_lines", side |-> name, args |-> NoArgs,
                     raised |-> "none",
                     value |-> [i \in DOMAIN r.value |->
                                   Seen(r.heap, r.value[i])]])
    /\ raised' = "none"
    /\ UNCHANGED <<pc, args, box, cur, calc, threads>>

Next ==
    \/ BoxCall
    \/ BoxSide
    \/ SideCall
    \/ EdgeStep
    \/ SideDone
    \/ AddCutout
    \/ AllLines

\* a constructor call followed by up to MaxCalls calls on one of the panels
Spec == Init /\ [][Next]_vars

NextCutout ==
    \/ BoxCall
    \/ BoxSide
    \/ SideCall
    \/ EdgeStep
    \/ SideDone
    \/ AddCutoutOnce

\* a constructor call followed by one add_cutout call with any arguments
SpecCutout == Init /\ [][NextCutout]_vars

\* the degree values the rotate calls are made with: quarter turns in both
\* directions, more than a full turn, and angles that are no quarter turn
RotateDegrees == {0, 90, 180, 270, 360, 450, -90, -180, 45, -30}

\* p.rotate(degrees, around) on two of the caller's Points (possibly the same
\* one); the call record keeps where p was
PointRotate ==
    /\ pc = "idle"
    /\ calls = <<>>
    /\ \E p \in DOMAIN UserPoints, around \in DOMAIN UserPoints,
          degrees \in RotateDegrees :
          \E r \in {Point_rotate_call(heap, p, degrees, around)} :
              /\ heap' = r.heap
              /\ raised' = r.raised
              /\ calls' = Append(calls,
                    [call |-> "Point.rotate", side |-> "",
                     args |-> [point |-> p, around |-> around,
                               degrees |-> degrees],
                     raised |-> r.raised, value |-> <<heap[p]>>])
    /\ UNCHANGED <<pc, args, box, sides, cur, calc, threads>>

\* p.rotate(-degrees, around) directly after a p.rotate(degrees, around) that
\* returned
PointRotateBack ==
    /\ pc = "idle"
    /\ Len(calls) = 1
    /\ calls[1].call = "Point.rotate"
    /\ calls[1].raised = "none"
    /\ \E r \in {Point_rotate_call(heap, calls[1].args.point,
                                    -calls[1].args.degrees,
                                    calls[1].args.around)} :
          /\ heap' = r.heap
          /\ raised' = r.raised
          /\ calls' = Append(calls,
                [call |-> "Point.rotate",  side |-> "",
                 args |-> [point |-> calls[1].args.point,
                           around |-> calls[1].args.around,
                           degrees |-> -calls[1].args.degrees],
                 raised |-> r.raised, value |-> <<heap[calls[1].args.point]>>])
    /\ UNCHANGED <<pc, args, box, sides, cur, calc, threads>>

\* edge.rotate(degrees) on an edge of a finished panel
EdgeRotate ==
    /\ pc = "idle"
    /\ calls = <<>>
    /\ \E name \in DOMAIN sides, f \in 1..4, degrees \in RotateDegrees :
          \E r \in {Edge_rotate_call(heap, sides[name][FaceNames[f]],
                                     degrees)} :
              /\ heap' = r.heap
              /\ sides' = [sides EXCEPT ![name][FaceNames[f]] = r.edge]
              /\ raised' = r.raised
              /\ calls' = Append(calls,
                    [call |-> "Edge.rotate", side |-> name,
                     args |-> [face |-> f, degrees |-> degrees],
                     raised |-> r.raised, value |-> <<>>])
    /\ UNCHANGED <<pc, args, box, cur, calc, threads>>

NextRotate ==
    \/ BoxCall
    \/ BoxSide
    \/ SideCall
    \/ EdgeStep
    \/ SideDone
    \/ PointRotate
    \/ PointRotateBack
    \/ EdgeRotate

\* a constructor call followed by a rotate call on a Point or on an Edge, and
\* after a Point's rotate the opposite one
SpecRotate == Init /\ [][NextRotate]_vars

(***************************************************************************)
(* Point.rotate in binary floating point.  Python's float is IEEE 754      *)
(* binary64: every +, - and * gives the representable number nearest to    *)
(* the exact result, ties going to the even significand.  The significand  *)
(* here has MantissaBits bits instead of 53; the rounding rule is the      *)
(* same.                                                                   *)
(***************************************************************************)
MantissaBits == 6

RECURSIVE Pow2(_)
Pow2(k) == IF k = 0 THEN 1 ELSE 2 * Pow2(k - 1)

\* a / b > 0 scaled by a power of two into [2^(MantissaBits-1), 2^MantissaBits):
\* a / b = (result.a / result.b) * 2^result.e
RECURSIVE Scaled(_, _, _)
Scaled(a, b, e) ==
    IF a >= Pow2(MantissaBits) * b THEN Scaled(a, 2 * b, e + 1)
    ELSE IF a < Pow2(MantissaBits - 1) * b THEN Scaled(2 * a, b, e - 1)
    ELSE [a |-> a, b |-> b, e |-> e]

\* the float nearest to the number r, ties to the even significand
FRound(r) ==
    IF r.n = 0 THEN Zero
    ELSE LET s == Scaled(Abs(r.n), r.d, 0)
             m == s.a \div s.b
             rest == s.a % s.b
             up == 2 * rest > s.b \/ (2 * rest = s.b /\ m % 2 = 1)
             sig == (IF r.n < 0 THEN -1 ELSE 1) * (IF up THEN m + 1 ELSE m)
         IN  IF s.e >= 0 THEN Rat(sig * Pow2(s.e), 1)
             ELSE Rat(sig, Pow2(-s.e))

\* a + b, a - b and k * a of floats
FAdd(a, b) == FRound(RAdd(a, b))

FSub(a, b) == FRound(RSub(a, b))

FMul(k, a) == FRound(RMul(a, k))

\* Point.rotate on floats: "ox + cos * (px - ox) - sin * (py - oy)" and
\* "oy + sin * (px - ox) + cos * (py - oy)", rounded after each operation
Point_rotate_float(p, degrees_in, o) ==
    LET degrees == degrees_in % 360
        cos == CosTable(degrees)
        sin == SinTable(degrees)
        dx == FSub(p.x, o.x)
        dy == FSub(p.y, o.y)
    IN  [x |-> FSub(FAdd(o.x, FMul(cos, dx)), FMul(sin, dy)),
         y |-> FAdd(FAdd(o.y, FMul(sin, dx)), FMul(cos, dy))]

\* Point.rotate as a call on floats: its assertion, then the rotation in place
Point_rotate_float_call(h, p, degrees_in, around) ==
    IF degrees_in % 90 # 0
    THEN [heap |-> h, raised |-> "AssertionError"]
    ELSE [heap |-> [h EXCEPT ![p] =
                       Point_rotate_float(h[p], degrees_in, h[around])],
          raised |-> "none"]

\* Point(x, y) of two decimal literals: each is the float nearest to it
FloatPoint(x, y) == [x |-> FRound(x), y |-> FRound(y)]

\* the caller's Points: (0.1, 0.2), (0.3, 0.7), (5, 12), (1, 1), (0, 0) and
\* (12.8, 31.05)
FloatPoints ==
    <<FloatPoint(Rat(1, 10), Rat(1, 5)),
      FloatPoint(Rat(3, 10), Rat(7, 10)),
      FloatPoint(Float(5), Float(12)),
      FloatPoint(Float(1), Float(1)),
      FloatPoint(Float(0), Float(0)),
      FloatPoint(Rat(64, 5), Rat(621, 20))>>

InitFloat ==
    /\ pc = "idle"
    /\ args = NoArgs
    /\ heap = FloatPoints
    /\ box = NoBox
    /\ sides = <<>>
    /\ cur = [side |-> "", face |-> 0]
    /\ raised = "none"
    /\ calls = <<>>
    /\ calc = NoCalc
    /\ threads = <<>>

\* p.rotate(degrees, around) on two of the Points (possibly the same one);
\* the call record keeps where p was
FloatRotate ==
    /\ pc = "idle"
    /\ calls = <<>>
    /\ \E p \in DOMAIN heap, around \in DOMAIN heap,
          degrees \in RotateDegrees :
          \E r \in {Point_rotate_float_call(heap, p, degrees, around)} :
              /\ heap' = r.heap
              /\ raised' = r.raised
              /\ calls' = Append(calls,
                    [call |-> "Point.rotate", side |-> "",
                     args |-> [point |-> p, around |-> around,
                               degrees |-> degrees],
                     raised |-> r.raised, value |-> <<heap[p]>>])
    /\ UNCHANGED <<pc, args, box, sides, cur, calc, threads>>

\* p.rotate(-degrees, around) directly after a p.rotate(degrees, around) that
\* returned
FloatRotateBack ==
    /\ pc = "idle"
    /\ Len(calls) = 1
    /\ calls[1].call = "Point.rotate"
    /\ calls[1].raised = "none"
    /\ \E r \in {Point_rotate_float_call(heap, calls[1].args.point,
                                          -calls[1].args.degrees,
                                          calls[1].args.around)} :
          /\ heap' = r.heap
          /\ raised' = r.raised
          /\ calls' = Append(calls,
                [call |-> "Point.rotate",  side |-> "",
                 args |-> [point |-> calls[1].args.point,
                           around |-> calls[1].args.around,
                           degrees |-> -calls[1].args.degrees],
                 raised |-> r.raised, value |-> <<heap[calls[1].args.point]>>])
    /\ UNCHANGED <<pc, args, box, sides, cur, calc, threads>>

NextFloat ==
    \/ FloatRotate
    \/ FloatRotateBack

\* Point.rotate and the opposite Point.rotate, in floating point
SpecFloat == InitFloat /\ [][NextFloat]_vars

(***************************************************************************)
(* calc_tab_num_and_length on its own: dim and thickness are multiples of  *)
(* 1/CalcUnit                                                              *)
(***************************************************************************)
CalcUnit == 2

MaxDim == 42

MaxThickness == 3

InitCalc ==
    /\ pc = "calc"
    /\ args = NoArgs
    /\ heap = <<>>
    /\ box = NoBox
    /\ sides = <<>>
    /\ cur = [side |-> "", face |-> 0]
    /\ raised = "none"
    /\ calls = <<>>
    /\ calc \in {[dim |-> Rat(n, CalcUnit), thickness |-> Rat(t, CalcUnit),
                  result |-> None] :
                    n \in (-MaxDim)..MaxDim,
                    t \in (-MaxThickness)..MaxThickness}
    /\ threads = <<>>

\* box.calc_tab_num_and_length(dim) on a Box of the given thickness
Calc ==
    /\ pc = "calc"
    /\ IF calc.thickness = Zero
       THEN /\ pc' = "failed"
            /\ raised' = "ZeroDivisionError"
            /\ UNCHANGED calc
       ELSE /\ pc' = "returned"
            /\ calc' = [calc EXCEPT !.result =
                           calc_tab_num_and_length(calc.dim, calc.thickness)]
            /\ UNCHANGED raised
    /\ UNCHANGED <<args, heap, box, sides, cur, calls, threads>>

NextCalc == Calc

SpecCalc == InitCalc /\ [][NextCalc]_vars

(***************************************************************************)
(* Two threads, each building a Box and adding cutouts to it.  heap holds  *)
(* the Points the caller made before starting the threads, which both may  *)
(* pass as arguments.  A Point made inside a call is referenced only from  *)
(* the objects of the thread that made it (the code has no module or class *)
(* attribute to keep it in), so each thread has an arena of its own for    *)
(* them; a call sees the caller's Points followed by its thread's arena.   *)
(* A thread is pre-empted between the statements of Box.create and         *)
(* Side.create and between its calls.                                      *)
(***************************************************************************)
Threads == {1, 2}

\* the Box(...) call of each thread: both from the caller's Point 1
PairBoxCalls ==
    <<BoxArgs(Float(100), Float(50), Float(65), Float(3), Float(2), <<1>>),
      BoxArgs(Float(21), Float(10), Rat(27, 2), Rat(3, 2), Rat(1, 2), <<1>>)>>

\* the add_cutout calls each thread makes on its Box once it is built; the
\* threads pass the same Points, one of them the Point the Boxes start from
PairPrograms ==
    <<  <<[side |-> "bottom",
           args |-> CutoutArgs("rect", <<"switch">>, 2, 3, <<"n", "w">>, 0,
                               FALSE)],
          [side |-> "right",
           args |-> CutoutArgs("hex", <<>>, 5, 1, <<"s", "e">>, 90, TRUE)]>>,
        <<[side |-> "top",
           args |-> CutoutArgs("hex", <<>>, 5, 1, <<"n", "e">>, 270, TRUE)],
          [side |-> "bottom",
           args |-> CutoutArgs("rect", <<>>, 2, 3, <<"n", "w">>, 0, FALSE)]>>
    >>

\* a thread before its first statement
NewThread(a, program) ==
    [pc |-> "start", args |-> a, program |-> program, made |-> 0,
     box |-> NoBox, sides |-> <<>>, cur |-> [side |-> "", face |-> 0],
     raised |-> "none", arena |-> <<>>]

\* the thread has a statement left to run
Running(st) ==
    \/ st.pc \in {"start", "Box.create"}
    \/ st.pc = "idle" /\ st.made < Len(st.program)

\* the next statement of a thread, run on the Points h it can see: Box(...)
\* up to the first side; the next side's corner and Side.__init__; one
\* Edge(...) statement; the end of Side.__init__; or its next add_cutout call
ThreadStep(h, st) ==
    IF st.pc = "start"
    THEN IF st.args.thickness = Zero
         THEN [heap |-> IF st.args.bb_sw_point = <<>>
                        THEN Point(h, Float(0), Float(0)).heap ELSE h,
               thread |-> [st EXCEPT !.pc = "failed",
                                     !.raised = "ZeroDivisionError"]]
         ELSE Only({[heap |-> b.heap,
                     thread |-> [st EXCEPT
                                   !.pc = "Box.create",
                                   !.box = b.box,
                                   !.cur = [side |-> BoxSides[1], face |-> 0]]]
                    : b \in {Box_init(h, st.args)}})
    ELSE IF st.pc = "Box.create" /\ st.cur.face = 0
    THEN Only({[heap |-> c.heap,
                thread |-> [st EXCEPT
                              !.sides = @ @@ (st.cur.side :>
                                  Side_init(BoxSideInfo(st.box, st.cur.side,
                                                        c.ref))),
                              !.cur.face = 1]]
               : c \in {SideCorner(h, st.box, st.sides, st.cur.side)}})
    ELSE IF st.pc = "Box.create" /\ st.cur.face \in 1..4
    THEN Only({[heap |-> f.heap,
                thread |-> [st EXCEPT !.sides[st.cur.side] = f.side,
                                      !.cur.face = @ + 1]]
               : f \in {Side_face(h, st.sides[st.cur.side], st.cur.face)}})
    ELSE IF st.pc = "Box.create"
    THEN [heap |-> h,
          thread |-> [st EXCEPT
                        !.sides[st.cur.side] = Side_finish(@),
                        !.cur = IF NextSide(st.cur.side) # ""
                                THEN [side |-> NextSide(st.cur.side),
                                      face |-> 0]
                                ELSE [side |-> "", face |-> 0],
                        !.pc = IF NextSide(st.cur.side) # ""
                               THEN "Box.create" ELSE "idle"]]
    ELSE Only({Only({[heap |-> r.heap,
                      thread |-> [st EXCEPT !.sides[c.side] = r.side,
                                            !.raised = r.raised,
                                            !.made = @ + 1]]
                     : r \in {add_cutout(h, st.sides[c.side], c.args.kind,
                                         c.args.corner_1, c.args.corner_2,
                                         c.args.bb_inner, c.args.name,
                                         c.args.rotate, c.args.flipxy)}})
               : c \in {st.program[st.made + 1]}})

InitPair ==
    /\ pc = "threads"
    /\ args = NoArgs
    /\ heap = UserPoints
    /\ box = NoBox
    /\ sides = <<>>
    /\ cur = [side |-> "", face |-> 0]
    /\ raised = "none"
    /\ calls = <<>>
    /\ calc = NoCalc
    /\ threads = [t \in Threads |-> NewThread(PairBoxCalls[t], PairPrograms[t])]

\* thread t runs its next statement: the caller's Points and its arena are
\* what the statement leaves of them
RunThread(t) ==
    \E view \in {heap \o threads[t].arena} :
        \E r \in {ThreadStep(view, threads[t])} :
            /\ heap' = SubSeq(r.heap, 1, Len(heap))
            /\ threads' = [threads EXCEPT ![t] =
                  [r.thread EXCEPT !.arena =
                      SubSeq(r.heap, Len(heap) + 1, Len(r.heap))]]

\* a thread runs a statement of its Box(...) call; calls keeps the order in
\* which the threads started
PairBuild ==
    \E t \in Threads :
        /\ threads[t].pc \in {"start", "Box.create"}
        /\ RunThread(t)
        /\ calls' = IF threads[t].pc = "start" THEN Append(calls, t) ELSE calls
        /\ UNCHANGED <<pc, args, box, sides, cur, raised, calc>>

\* a thread makes its next add_cutout call; calls keeps the order of the calls
PairCutout ==
    \E t \in Threads :
        /\ threads[t].pc = "idle"
        /\ threads[t].made < Len(threads[t].program)
        /\ RunThread(t)
        /\ calls' = Append(calls, t)
        /\ UNCHANGED <<pc, args, box, sides, cur, raised, calc>>

NextPair ==
    \/ PairBuild
    \/ PairCutout

SpecPair == InitPair /\ [][NextPair]_vars

(***************************************************************************)
(* Point.draw_horiz and Point.draw_vert called by the program itself, the  *)
(* way Edge.create and Box.create call them: from one of the caller's      *)
(* Points, and then from the end of the line drawn last.                   *)
(***************************************************************************)
\* the distances drawn: none, forwards and backwards
DrawDistances == {Zero, Float(3), Rat(-1, 2)}

\* the Point the next line is drawn from
DrawFrom ==
    IF calls = <<>> THEN DOMAIN UserPoints
    ELSE {calls[Len(calls)].value[1].dest}

\* p.draw_horiz(Dim(dist), is_construction); the call record keeps the Line
\* returned
DrawHoriz ==
    /\ pc = "idle"
    /\ Len(calls) < MaxCalls
    /\ \E p \in DrawFrom, dist \in DrawDistances, is_construction \in BOOLEAN :
          \E r \in {draw_horiz(heap, p, dist, is_construction)} :
              /\ heap' = r.heap
              /\ calls' = Append(calls,
                    [call |-> "draw_horiz", side |-> "",
                     args |-> [point |-> p, dist |-> dist,
                               is_construction |-> is_construction],
                     raised |-> "none", value |-> <<r.line>>])
    /\ UNCHANGED <<pc, args, box, sides, cur, raised, calc, threads>>

\* p.draw_vert(Dim(dist), is_construction)
DrawVert ==
    /\ pc = "idle"
    /\ Len(calls) < MaxCalls
    /\ \E p \in DrawFrom, dist \in DrawDistances, is_construction \in BOOLEAN :
          \E r \in {draw_vert(heap, p, dist, is_construction)} :
              /\ heap' = r.heap
              /\ calls' = Append(calls,
                    [call |-> "draw_vert", side |-> "",
                     args |-> [point |-> p, dist |-> dist,
                               is_construction |-> is_construction],
                     raised |-> "none", value |-> <<r.line>>])
    /\ UNCHANGED <<pc, args, box, sides, cur, raised, calc, threads>>

InitDraw ==
    /\ pc = "idle"
    /\ args = NoArgs
    /\ heap = UserPoints
    /\ box = NoBox
    /\ sides = <<>>
    /\ cur = [side |-> "", face |-> 0]
    /\ raised = "none"
    /\ calls = <<>>
    /\ calc = NoCalc
    /\ threads = <<>>

NextDraw ==
    \/ DrawHoriz
    \/ DrawVert

SpecDraw == InitDraw /\ [][NextDraw]_vars

(***************************************************************************)
(* Properties                                                              *)
(***************************************************************************)
\* the constructor call is over and the program holds a finished Box
BoxBuilt == pc = "idle" /\ args.kind = "Box"

\* a Side whose create() has built all four edges
HasEdges(self) == self.west_face # None

\* a Side whose __init__ is over
Finished(self) == self.bounding_box # None

\* the three tab counts of the Box are at least 1
TabsAtLeastOne == \A k \in {"w", "h", "d"} : box.tab_num[k] >= 1

\* the edges of a panel that run along the dimension k of the Box
EdgesAlong(name, k) ==
    (IF SideDims(name).ew = k
     THEN {sides[name].south_face, sides[name].north_face} ELSE {})
    \cup (IF SideDims(name).ns = k
          THEN {sides[name].east_face, sides[name].west_face} ELSE {})

\* the panel families that mate, and the shared dimension they mate along
MatingFamilies ==
    {<<{"bottom", "top"}, {"upper", "lower"}, "w">>,
     <<{"bottom", "top"}, {"left", "right"}, "d">>,
     <<{"upper", "lower"}, {"left", "right"}, "h">>}

\* panels a and b mate along dimension k
Mates(a, b, k) ==
    \E m \in MatingFamilies : a \in m[1] /\ b \in m[2] /\ k = m[3]

\* the outer notch-width segments of an edge: outer_lines without the two end
\* pieces
OuterSegments(edge) == SubSeq(edge.outer_lines, 2, Len(edge.outer_lines) - 1)

\* C1: in every finished Box, two edges of panels of different families that
\* run along the same dimension have the same notch count and notch width and
\* as many outer segments, and each outer segment is a drawn (non-construction)
\* line on exactly one of the two
C1_MatingEdgesComplement ==
    BoxBuilt =>
        \A a \in DOMAIN sides, b \in DOMAIN sides, k \in {"w", "h", "d"} :
            Mates(a, b, k) =>
                /\ Cardinality(EdgesAlong(a, k)) = 2
                /\ Cardinality(EdgesAlong(b, k)) = 2
                /\ \A e \in EdgesAlong(a, k), f \in EdgesAlong(b, k) :
                    /\ e.notch_count = f.notch_count
                    /\ e.notch_width = f.notch_width
                    /\ Len(OuterSegments(e)) = Len(OuterSegments(f))
                    /\ \A i \in DOMAIN OuterSegments(e) :
                          OuterSegments(e)[i].is_construction
                              # OuterSegments(f)[i].is_construction

\* C1 witness: a finished Box with 5 tabs along the width, where the first
\* outer segment of bottom's south edge is a slot and upper's is a tab
C1_Witness ==
    /\ BoxBuilt
    /\ box.tab_num["w"] = 5
    /\ Mates("bottom", "upper", "w")
    /\ Len(OuterSegments(sides["bottom"].south_face)) = 11
    /\ OuterSegments(sides["bottom"].south_face)[1].is_construction
    /\ ~OuterSegments(sides["upper"].south_face)[1].is_construction

\* the statement of C2 as written: dim >= 3 * thickness > 0 gives an odd tab
\* count of at least 1
C2_OddTabsFromThreeThicknesses ==
    (/\ pc = "returned"
     /\ RLess(Zero, calc.thickness)
     /\ RLeq(RMul(calc.thickness, 3), calc.dim))
        => calc.result.tabs % 2 = 1 /\ calc.result.tabs >= 1

\* C2 witness: a call with dim >= 3 * thickness that returned a tab count
\* below 1
C2_Witness ==
    /\ pc = "returned"
    /\ RLess(Zero, calc.thickness)
    /\ RLeq(RMul(calc.thickness, 3), calc.dim)
    /\ calc.result.tabs = -1

C4_EdgesChainAndClose ==
    \A name \in DOMAIN sides :
        HasEdges(sides[name]) =>
            /\ heap[sides[name].east_face.bb_left]
                   = heap[sides[name].south_face.bb_right]
            /\ heap[sides[name].north_face.bb_left]
                   = heap[sides[name].east_face.bb_right]
            /\ heap[sides[name].west_face.bb_left]
                   = heap[sides[name].north_face.bb_right]
            /\ heap[sides[name].west_face.bb_right]
                   = heap[sides[name].side_info.bb_sw_corner]

\* C4 witness: a Side with its four edges, whose west_face ends in a Point
\* object other than its south-west corner, at the same coordinates, after a
\* south edge of non-zero extent
C4_Witness ==
    \E name \in DOMAIN sides :
        /\ HasEdges(sides[name])
        /\ sides[name].west_face.bb_right # sides[name].side_info.bb_sw_corner
        /\ heap[sides[name].west_face.bb_right]
               = heap[sides[name].side_info.bb_sw_corner]
        /\ heap[sides[name].south_face.bb_right]
               # heap[sides[name].side_info.bb_sw_corner]

\* the point at (dx, dy) from a Point
Moved(p, dx, dy) == [x |-> RAdd(heap[p].x, dx), y |-> RAdd(heap[p].y, dy)]

\* C5: in every finished Side each inner bounding-box corner is the outer
\* corner of the same name moved into the panel by ns_notch_height along x
\* and by ew_notch_height along y; in a Box both are the thickness
C5_InnerBoxInset ==
    \A name \in DOMAIN sides :
        Finished(sides[name]) =>
            LET self == sides[name]
                ix == self.side_info.ns_notch_height
                iy == self.side_info.ew_notch_height
                o == self.bounding_box
                i == self.inner_bounding_box
            IN  /\ heap[i.sw] = Moved(o.sw, ix, iy)
                /\ heap[i.se] = Moved(o.se, RNeg(ix), iy)
                /\ heap[i.ne] = Moved(o.ne, RNeg(ix), RNeg(iy))
                /\ heap[i.nw] = Moved(o.nw, ix, RNeg(iy))
                /\ args.kind = "Box" => ix = box.thickness /\ iy = box.thickness

\* C5 witness: a finished Side whose two notch heights differ, with its
\* inner south-east corner left of and above the outer one
C5_Witness ==
    \E name \in DOMAIN sides :
        /\ Finished(sides[name])
        /\ sides[name].side_info.ns_notch_height
               # sides[name].side_info.ew_notch_height
        /\ RLess(heap[sides[name].inner_bounding_box.se].x,
                 heap[sides[name].bounding_box.se].x)
        /\ RLess(heap[sides[name].bounding_box.se].y,
                 heap[sides[name].inner_bounding_box.se].y)

\* the x and y ranges a set of corner coordinates spans contain p
Within(p, corners) ==
    /\ \E c \in corners : RLeq(c.x, p.x)
    /\ \E c \in corners : RLeq(p.x, c.x)
    /\ \E c \in corners : RLeq(c.y, p.y)
    /\ \E c \in corners : RLeq(p.y, c.y)

\* the coordinates of the four corners of a bounding box
Corners(bb) == {heap[bb.sw], heap[bb.se], heap[bb.ne], heap[bb.nw]}

\* C6: a finished Box whose three tab counts are at least 1 has exactly the
\* six panels bottom, right, upper, left, top, lower, each with four edges,
\* and both ends of every line of a panel's all_lines() lie within the
\* panel's outer bounding box
C6_SixPanelsLinesWithinBox ==
    (BoxBuilt /\ TabsAtLeastOne) =>
        /\ DOMAIN sides = {"bottom", "right", "upper", "left", "top", "lower"}
        /\ \A name \in DOMAIN sides :
              /\ Len(edge_line_list(sides[name])) = 4
              /\ \A f \in 1..4 : sides[name][FaceNames[f]] # None
              /\ LET lines == all_lines(sides[name])
                     corners == Corners(sides[name].bounding_box)
                 IN  \A p \in LinePoints(lines) : Within(heap[p], corners)

\* C6 witness: Box(100, 50, 65, 3, 2) finished, with its six panels and the
\* 128 lines of its bottom panel, one of them ending at the panel's north-east
\* corner (106, 71)
C6_Witness ==
    /\ BoxBuilt
    /\ args.width = Float(100) /\ args.height = Float(50)
    /\ args.depth = Float(65) /\ args.thickness = Float(3)
    /\ TabsAtLeastOne
    /\ Cardinality(DOMAIN sides) = 6
    /\ Len(all_lines(sides["bottom"])) = 128
    /\ \E i \in DOMAIN all_lines(sides["bottom"]) :
          heap[all_lines(sides["bottom"])[i].dest]
              = [x |-> Float(106), y |-> Float(71)]

\* the panel's inner width and height: the extent of its inner bounding box
InnerWidth(self) ==
    RSub(heap[self.inner_bounding_box.ne].x, heap[self.inner_bounding_box.sw].x)

InnerHeight(self) ==
    RSub(heap[self.inner_bounding_box.ne].y, heap[self.inner_bounding_box.sw].y)

\* a corner argument lies between 0 and the inner width and height
FitsInside(corner, self) ==
    /\ RLess(Zero, heap[corner].x) /\ RLess(heap[corner].x, InnerWidth(self))
    /\ RLess(Zero, heap[corner].y) /\ RLess(heap[corner].y, InnerHeight(self))

\* a Point lies strictly inside the panel's inner bounding box
StrictlyInside(p, self) ==
    /\ RLess(heap[self.inner_bounding_box.sw].x, heap[p].x)
    /\ RLess(heap[p].x, heap[self.inner_bounding_box.ne].x)
    /\ RLess(heap[self.inner_bounding_box.sw].y, heap[p].y)
    /\ RLess(heap[p].y, heap[self.inner_bounding_box.ne].y)

\* the add_cutout call made was one with rotate = 0, flipxy = False, a
\* reference corner in {sw, se, ne, nw} and two corners that fit inside
PlainCutoutCall ==
    /\ calls # <<>>
    /\ calls[1].call = "add_cutout"
    /\ calls[1].args.rotate = 0
    /\ ~calls[1].args.flipxy
    /\ calls[1].args.bb_inner \in CornerNames
    /\ FitsInside(calls[1].args.corner_1, sides[calls[1].side])
    /\ FitsInside(calls[1].args.corner_2, sides[calls[1].side])

\* C7: after add_cutout with rotate = 0 and flipxy = False on any panel, for
\* any reference corner, with two corners whose x lies between 0 and the
\* inner width and whose y lies between 0 and the inner height, the call has
\* stored one cutout whose two corners lie strictly inside the panel's inner
\* bounding box
C7_PlainCutoutStrictlyInside ==
    PlainCutoutCall =>
        LET self == sides[calls[1].side]
        IN  /\ raised = "none"
            /\ Len(self.cutouts) = 1
            /\ StrictlyInside(self.cutouts[1].c1, self)
            /\ StrictlyInside(self.cutouts[1].c2, self)

\* C7 witness: the rect cutout with corners (5, 12) and (12.8, 31.05)
\* relative to 'nw' on the bottom panel of Box(100, 50, 65, 3, 2): the
\* stored corners are (8, 56) and (15.8, 36.95)
C7_Witness ==
    /\ PlainCutoutCall
    /\ args.kind = "Box" /\ args.width = Float(100)
    /\ calls[1].side = "bottom"
    /\ calls[1].args.kind = "rect"
    /\ calls[1].args.bb_inner = <<"n", "w">>
    /\ heap[calls[1].args.corner_1] = [x |-> Float(5), y |-> Float(12)]
    /\ heap[calls[1].args.corner_2] = [x |-> Rat(64, 5), y |-> Rat(621, 20)]
    /\ heap[sides["bottom"].cutouts[1].c1] = [x |-> Float(8), y |-> Float(56)]
    /\ heap[sides["bottom"].cutouts[1].c2]
           = [x |-> Rat(79, 5), y |-> Rat(739, 20)]

\* how far east of the bottom panel the top panel lies
TopOffset ==
    RSub(heap[sides["top"].bounding_box.sw].x,
         heap[sides["bottom"].bounding_box.sw].x)

\* C8: in every finished Box, each edge of top has as many lines as the same
\* edge of bottom, and line by line the same construction flag, the same
\* length, and the ends of bottom's line moved east by one common distance
C8_TopIsBottomMoved ==
    BoxBuilt =>
        \A f \in 1..4 :
            LET b == sides["bottom"][FaceNames[f]].lines
                t == sides["top"][FaceNames[f]].lines
            IN  /\ Len(t) = Len(b)
                /\ \A i \in DOMAIN b :
                      /\ t[i].is_construction = b[i].is_construction
                      /\ t[i].length = b[i].length
                      /\ heap[t[i].source] = Moved(b[i].source, TopOffset, Zero)
                      /\ heap[t[i].dest] = Moved(b[i].dest, TopOffset, Zero)

\* C8 witness: Box(100, 50, 65, 3, 2) finished: bottom and top have 38 lines
\* on their south edges and 26 on their east edges, and top lies 166 east
C8_Witness ==
    /\ BoxBuilt
    /\ box.tab_num = [w |-> 5, h |-> 3, d |-> 3]
    /\ Len(sides["bottom"].south_face.lines) = 38
    /\ Len(sides["top"].south_face.lines) = 38
    /\ Len(sides["bottom"].east_face.lines) = 26
    /\ Len(sides["top"].east_face.lines) = 26
    /\ TopOffset = Float(166)

\* the rectangle of a panel's outer bounding box
West(name) == heap[sides[name].bounding_box.sw].x

East(name) == heap[sides[name].bounding_box.ne].x

South(name) == heap[sides[name].bounding_box.sw].y

North(name) == heap[sides[name].bounding_box.ne].y

\* the rectangles of two panels have no point in common
Disjoint(a, b) ==
    \/ RLess(East(a), West(b))
    \/ RLess(East(b), West(a))
    \/ RLess(North(a), South(b))
    \/ RLess(North(b), South(a))

\* C9: in every finished Box with spacing > 0 and tab counts of at least 1
\* the six outer bounding boxes are pairwise disjoint, and right, upper, left
\* and lower lie exactly spacing from bottom, and top exactly spacing from
\* right, along one axis
C9_PanelsApartBySpacing ==
    (BoxBuilt /\ TabsAtLeastOne /\ RLess(Zero, box.spacing)) =>
        /\ \A a \in DOMAIN sides, b \in DOMAIN sides : a # b => Disjoint(a, b)
        /\ RSub(West("right"), East("bottom")) = box.spacing
        /\ RSub(South("upper"), North("bottom")) = box.spacing
        /\ RSub(West("bottom"), East("left")) = box.spacing
        /\ RSub(South("bottom"), North("lower")) = box.spacing
        /\ RSub(West("top"), East("right")) = box.spacing

\* C9 witness: Box(100, 50, 65, 3, 2) finished, with right starting at
\* x = 108, 2 past bottom's east side at 106, and left ending at x = -2
C9_Witness ==
    /\ BoxBuilt
    /\ TabsAtLeastOne
    /\ box.spacing = Float(2)
    /\ East("bottom") = Float(106)
    /\ West("right") = Float(108)
    /\ East("left") = Float(-2)
    /\ Disjoint("left", "lower")

\* the step is a call of all_lines()
IsAllLinesStep ==
    /\ Len(calls') = Len(calls) + 1
    /\ calls'[Len(calls')].call = "all_lines"

\* C10: a call of Side.all_lines() changes no Side and no Point, and when it
\* follows directly on another call of all_lines() on the same Side it
\* returns a list of the same length with, position by position, the same
\* lines at the same coordinates with the same flags
C10_AllLinesRepeatable ==
    [][IsAllLinesStep =>
          /\ sides' = sides
          /\ heap' = heap
          /\ (/\ calls # <<>>
              /\ calls[Len(calls)].call = "all_lines"
              /\ calls[Len(calls)].side = calls'[Len(calls')].side)
                 => /\ Len(calls'[Len(calls')].value)
                          = Len(calls[Len(calls)].value)
                    /\ \A i \in DOMAIN calls[Len(calls)].value :
                          calls'[Len(calls')].value[i]
                              = calls[Len(calls)].value[i]]_vars

\* C10 witness: two calls of all_lines() in a row on the same Side, both
\* returning the same non-empty list
C10_Witness ==
    /\ Len(calls) >= 2
    /\ calls[1].call = "all_lines"
    /\ calls[2].call = "all_lines"
    /\ calls[1].side = calls[2].side
    /\ Len(calls[1].value) > 0
    /\ calls[2].value = calls[1].value

\* C11: after p.rotate(d, c) and then p.rotate(-d, c), for Points p and c
\* and a multiple d of 90, both calls have returned and p is where it was
\* before the first call
C11_RotateRoundTrip ==
    (/\ Len(calls) = 2
     /\ calls[2].call = "Point.rotate"
     /\ calls[1].args.degrees % 90 = 0)
        => /\ calls[1].raised = "none"
           /\ calls[2].raised = "none"
           /\ heap[calls[1].args.point] = calls[1].value[1]

\* C11 witness: Point (0.1, 0.2) turned by 90 degrees about (0.3, 0.7) and
\* back by -90 degrees, both calls returned, and p.x is not what it was
C11_Witness ==
    /\ Len(calls) = 2
    /\ calls[1].args = [point |-> 1, around |-> 2, degrees |-> 90]
    /\ calls[2].args = [point |-> 1, around |-> 2, degrees |-> -90]
    /\ calls[2].raised = "none"
    /\ calls[1].value[1] = FloatPoint(Rat(1, 10), Rat(1, 5))
    /\ heap[1].x # calls[1].value[1].x

\* the step is a rotate call, on a Point or on an Edge
IsRotateStep ==
    /\ Len(calls') = Len(calls) + 1
    /\ calls'[Len(calls')].call \in {"Point.rotate", "Edge.rotate"}

\* C12: a call of Point.rotate or Edge.rotate with a degree value that is no
\* multiple of 90 ends with AssertionError and leaves every Point, and every
\* Side, as it was
C12_RotateRejectsOtherAngles ==
    [][(IsRotateStep /\ calls'[Len(calls')].args.degrees % 90 # 0)
          => /\ raised' = "AssertionError"
             /\ calls'[Len(calls')].raised = "AssertionError"
             /\ heap' = heap
             /\ sides' = sides]_vars

\* C12 witness: an Edge.rotate(45) on an edge of a finished panel that ended
\* with AssertionError
C12_Witness ==
    /\ calls # <<>>
    /\ calls[1].call = "Edge.rotate"
    /\ calls[1].args.degrees = 45
    /\ raised = "AssertionError"
    /\ Finished(sides[calls[1].side])

\* the number of lines of a list that are not construction lines
RealLines(lines) ==
    Cardinality({i \in DOMAIN lines : ~lines[i].is_construction})

\* C13: a call of Edge.rotate with a multiple of 90 leaves every line of the
\* Edge with its end-point objects and its is_construction flag, so the
\* numbers of non-construction outer and inner lines are as before
C13_RotateKeepsFlags ==
    [][(/\ IsRotateStep
        /\ calls'[Len(calls')].call = "Edge.rotate"
        /\ calls'[Len(calls')].args.degrees % 90 = 0)
          => LET c == calls'[Len(calls')]
                 old == sides[c.side][FaceNames[c.args.face]]
                 new == sides'[c.side][FaceNames[c.args.face]]
             IN  /\ Len(new.lines) = Len(old.lines)
                 /\ \A i \in DOMAIN old.lines :
                       /\ new.lines[i].is_construction
                              = old.lines[i].is_construction
                       /\ new.lines[i].source = old.lines[i].source
                       /\ new.lines[i].dest = old.lines[i].dest
                 /\ RealLines(new.lines) = RealLines(old.lines)
                 /\ RealLines(new.outer_lines) = RealLines(old.outer_lines)
                 /\ RealLines(new.inner_lines) = RealLines(old.inner_lines)]_vars

\* C13 witness: an Edge.rotate(90) that returned, on an edge with
\* non-construction lines, and with a Point of the edge moved
C13_Witness ==
    /\ calls # <<>>
    /\ calls[1].call = "Edge.rotate"
    /\ calls[1].args.degrees = 90
    /\ raised = "none"
    /\ RealLines(sides[calls[1].side][FaceNames[calls[1].args.face]].lines) > 0
    /\ LET e == sides[calls[1].side][FaceNames[calls[1].args.face]]
       IN  heap[e.bb_right].x = heap[e.bb_left].x

\* C14: a Box(...) call never goes on to build edges from a tab count below
\* 1: once the call is past __init__ and has not failed, the three tab counts
\* are at least 1
C14_NoEdgesFromTabsBelowOne ==
    (args.kind = "Box" /\ pc \notin {"start", "failed"}) => TabsAtLeastOne

\* C14 witness: a Box(...) call that returned with no exception, with a tab
\* count of -1 and all six panels built from it
C14_Witness ==
    /\ BoxBuilt
    /\ raised = "none"
    /\ \E k \in {"w", "h", "d"} : box.tab_num[k] = -1
    /\ \A name \in DOMAIN sides : Finished(sides[name])
    /\ Cardinality(DOMAIN sides) = 6

\* floor(a / k) of a number a and an integer k > 0, from its definition: the
\* integer s with s <= a / k < s + 1
FloorOf(a, k) ==
    CHOOSE s \in (-2 * MaxDim - 2)..(2 * MaxDim + 2) :
        s * k * a.d <= a.n /\ a.n < (s + 1) * k * a.d

\* tabs_k of the statement: segments_k = floor((dim / thickness) / k),
\* t_k = (segments_k - 1) // 2, and t_k if it is odd, else t_k - 1
TabsFor(dim, thickness, k) ==
    LET segments == FloorOf(RQuot(dim, thickness), k)
        t == FloorOf(Float(segments - 1), 2)
    IN  IF t % 2 = 1 THEN t ELSE t - 1

\* C17: the tab count returned by calc_tab_num_and_length is tabs_3 if
\* tabs_3 >= 3 and tabs_2 otherwise, where for k in {3, 2}
\* segments_k = floor((dim / thickness) / k), t_k = (segments_k - 1) // 2 and
\* tabs_k = t_k if t_k is odd, else t_k - 1
C17_TabCountFormula ==
    pc = "returned" =>
        LET tabs_3 == TabsFor(calc.dim, calc.thickness, 3)
            tabs_2 == TabsFor(calc.dim, calc.thickness, 2)
        IN  calc.result.tabs = IF tabs_3 >= 3 THEN tabs_3 ELSE tabs_2

\* C17 witness: dim / thickness = 27, where the 3x rule gives the 3 tabs
\* returned and the 2x rule would give 5
C17_Witness ==
    /\ pc = "returned"
    /\ RQuot(calc.dim, calc.thickness) = Float(27)
    /\ TabsFor(calc.dim, calc.thickness, 3) = 3
    /\ TabsFor(calc.dim, calc.thickness, 2) = 5
    /\ calc.result.tabs = 3

\* the Point the statement of C18 describes for a corner argument (x, y):
\* y negated for a north reference corner, x negated for an east one; x and y
\* exchanged if flipxy; then the quarter turns counter-clockwise of that
\* offset, added to the reference corner b of the inner bounding box
PlacedCorner(corner, a, b) ==
    LET mx == IF a.bb_inner[2] = "e" THEN RNeg(corner.x) ELSE corner.x
        my == IF a.bb_inner[1] = "n" THEN RNeg(corner.y) ELSE corner.y
        fx == IF a.flipxy THEN my ELSE mx
        fy == IF a.flipxy THEN mx ELSE my
        turn == a.rotate % 360
        tx == CASE turn = 0 -> fx [] turn = 90 -> RNeg(fy)
                [] turn = 180 -> RNeg(fx) [] turn = 270 -> fy
        ty == CASE turn = 0 -> fy [] turn = 90 -> fx
                [] turn = 180 -> RNeg(fy) [] turn = 270 -> RNeg(fx)
    IN  [x |-> RAdd(b.x, tx), y |-> RAdd(b.y, ty)]

\* the add_cutout call made has a reference corner in {sw, se, ne, nw} and a
\* multiple of 90 for rotate
PlacedCutoutCall ==
    /\ calls # <<>>
    /\ calls[1].call = "add_cutout"
    /\ calls[1].args.bb_inner \in CornerNames
    /\ calls[1].args.rotate % 90 = 0

\* C18: add_cutout with a reference corner in {sw, se, ne, nw} and a multiple
\* of 90 for rotate returns, and stores for each corner argument the Point
\* got by negating y for a north corner and x for an east corner, exchanging
\* x and y if flipxy, adding inner_bounding_box[bb_inner], and rotating
\* counter-clockwise by rotate about that inner corner
C18_CutoutCornerPlacement ==
    PlacedCutoutCall =>
        LET self == sides[calls[1].side]
            a == calls[1].args
            b == heap[self.inner_bounding_box[CornerKey(a.bb_inner)]]
        IN  /\ raised = "none"
            /\ Len(self.cutouts) = 1
            /\ heap[self.cutouts[1].c1] = PlacedCorner(heap[a.corner_1], a, b)
            /\ heap[self.cutouts[1].c2] = PlacedCorner(heap[a.corner_2], a, b)

\* C18 witness: on the bottom panel of Box(100, 50, 65, 3, 2), whose inner
\* north-east corner is (103, 68), the corner (5, 12) given relative to 'ne'
\* with flipxy and rotate = 270 is stored as (98, 80)
C18_Witness ==
    /\ PlacedCutoutCall
    /\ args.kind = "Box" /\ args.width = Float(100)
    /\ calls[1].side = "bottom"
    /\ calls[1].args.bb_inner = <<"n", "e">>
    /\ calls[1].args.flipxy
    /\ calls[1].args.rotate = 270
    /\ heap[calls[1].args.corner_1] = [x |-> Float(5), y |-> Float(12)]
    /\ heap[sides["bottom"].inner_bounding_box.ne]
           = [x |-> Float(103), y |-> Float(68)]
    /\ heap[sides["bottom"].cutouts[1].c1] = [x |-> Float(98), y |-> Float(80)]

\* the add_cutout calls made on a panel that returned, in call order
CutoutsMade(name) ==
    SelectSeq(calls, LAMBDA c : /\ c.call = "add_cutout"
                                /\ c.side = name
                                /\ c.raised = "none")

\* a panel's cutouts are one entry per returned call, in call order, each
\* with the kind and name given and the two corners placed from its arguments
CutoutsAsCalled(name) ==
    LET self == sides[name]
        made == CutoutsMade(name)
    IN  /\ Len(self.cutouts) = Len(made)
        /\ \A i \in DOMAIN made :
              LET a == made[i].args
                  b == heap[self.inner_bounding_box[CornerKey(a.bb_inner)]]
              IN  /\ self.cutouts[i].kind = a.kind
                  /\ self.cutouts[i].name = a.name
                  /\ heap[self.cutouts[i].c1]
                         = PlacedCorner(heap[a.corner_1], a, b)
                  /\ heap[self.cutouts[i].c2]
                         = PlacedCorner(heap[a.corner_2], a, b)

\* a step leaves every entry a panel's cutouts already had in its place, with
\* the same Points at the same coordinates
CutoutsKept(name) ==
    LET old == sides[name].cutouts
    IN  /\ Len(sides'[name].cutouts) >= Len(old)
        /\ \A i \in DOMAIN old :
              /\ sides'[name].cutouts[i] = old[i]
              /\ heap'[old[i].c1] = heap[old[i].c1]
              /\ heap'[old[i].c2] = heap[old[i].c2]

\* C19: after any sequence of add_cutout calls that returned, a panel's
\* cutouts hold one (kind, name, c1, c2) per call in call order, with the kind
\* as given (also one that is neither 'circle' nor 'rect'), and no step
\* changes or moves an entry stored before it
C19_CutoutsAppendOnly ==
    /\ [](\A name \in DOMAIN sides :
             Finished(sides[name]) => CutoutsAsCalled(name))
    /\ [][\A name \in DOMAIN sides :
             Finished(sides[name]) => CutoutsKept(name)]_vars

\* C19 witness: a panel after add_cutout('hex', ...) and then
\* add_cutout('rect', ..., name='switch'): two cutouts, in that order
C19_Witness ==
    /\ Len(calls) = 2
    /\ calls[1].call = "add_cutout" /\ calls[1].args.kind = "hex"
    /\ calls[2].call = "add_cutout" /\ calls[2].args.kind = "rect"
    /\ Len(sides[calls[1].side].cutouts) = 2
    /\ sides[calls[1].side].cutouts[1].kind = "hex"
    /\ sides[calls[1].side].cutouts[2].kind = "rect"
    /\ sides[calls[1].side].cutouts[2].name = <<"switch">>

\* the edges built so far, of every panel
BuiltEdges ==
    {sides[name][FaceNames[f]] :
        name \in {n \in DOMAIN sides : HasEdges(sides[n])}, f \in 1..4}

\* the leading and the trailing outer segment of an edge
EndSegments(edge) == {edge.outer_lines[1], edge.outer_lines[Len(edge.outer_lines)]}

\* C20 as stated: the leading and the trailing outer segment of an edge are
\* non-construction only when neither is_wide nor is_tall holds
C20_EndSegmentsRealOnlyIfNeither ==
    \A edge \in BuiltEdges : \A line \in EndSegments(edge) :
        ~line.is_construction => (~edge.is_wide /\ ~edge.is_tall)

\* C20, corrected: the leading and the trailing outer segment of an edge have
\* the length notch_height_other and are non-construction exactly when both
\* is_wide and is_tall hold
C20_EndSegmentsRealIffBoth ==
    \A edge \in BuiltEdges : \A line \in EndSegments(edge) :
        /\ line.length = <<edge.notch_height_other>>
        /\ ~line.is_construction <=> (edge.is_wide /\ edge.is_tall)

\* C20 witness: a finished Box, where the end segments of the right panel
\* (wide and tall) are real and those of the bottom panel (neither) and of the
\* upper panel (tall only) are construction lines
C20_Witness ==
    /\ BoxBuilt
    /\ \A name \in {"right", "bottom", "upper"} : HasEdges(sides[name])
    /\ sides["right"].south_face.is_wide /\ sides["right"].south_face.is_tall
    /\ \A line \in EndSegments(sides["right"].south_face) :
          ~line.is_construction
    /\ ~sides["bottom"].south_face.is_wide
    /\ ~sides["bottom"].south_face.is_tall
    /\ \A line \in EndSegments(sides["bottom"].south_face) :
          line.is_construction
    /\ sides["upper"].south_face.is_tall
    /\ \A line \in EndSegments(sides["upper"].south_face) :
          line.is_construction

\* the edges built so far, as (panel, position in the order of building)
BuiltFaces ==
    {nf \in (DOMAIN sides) \X (1..4) : sides[nf[1]][FaceNames[nf[2]]] # None}

\* the Point objects of an edge: the ends of its lines and its three corners
EdgePoints(edge) ==
    LinePoints(edge.lines) \cup {edge.bb_left, edge.bb_right, edge.inner_bb_left}

\* the Point objects two built edges may share: the later edge's starting
\* corner, where the earlier one ends, if one is built directly after the
\* other in the same panel; none otherwise
SharedCorner(a, b) ==
    IF a[1] = b[1] /\ b[2] = a[2] + 1
    THEN {sides[b[1]][FaceNames[b[2]]].bb_left}
    ELSE IF a[1] = b[1] /\ a[2] = b[2] + 1
    THEN {sides[a[1]][FaceNames[a[2]]].bb_left}
    ELSE {}

\* two built edges share the Point objects of SharedCorner and no other
EdgesShareCornerOnly ==
    \A a \in BuiltFaces : \A b \in BuiltFaces \ {a} :
        /\ EdgePoints(sides[a[1]][FaceNames[a[2]]])
              \cap EdgePoints(sides[b[1]][FaceNames[b[2]]]) = SharedCorner(a, b)
        /\ (a[1] = b[1] /\ b[2] = a[2] + 1) =>
              sides[b[1]][FaceNames[b[2]]].bb_left
                  = sides[a[1]][FaceNames[a[2]]].bb_right

\* a step leaves every edge built before it as it is: the same lines between
\* the same Point objects, and every one of its Points at its coordinates
BuiltEdgesKept ==
    \A a \in BuiltFaces :
        /\ sides'[a[1]][FaceNames[a[2]]] = sides[a[1]][FaceNames[a[2]]]
        /\ \A p \in EdgePoints(sides[a[1]][FaceNames[a[2]]]) :
              heap'[p] = heap[p]

\* C16: the only Point object two edges share is the corner at which the
\* later edge of a panel starts, its rotation centre; and no step (building
\* and rotating a later edge, building another panel, add_cutout, all_lines)
\* changes the coordinates of any Point of an edge built before it
C16_EarlierEdgesNeverMoved ==
    /\ []EdgesShareCornerOnly
    /\ [][BuiltEdgesKept]_vars

\* C16 witness: a finished panel with a cutout, whose east edge was built from
\* the corner where the south edge ends and turned by 90 degrees about it,
\* the south edge's end still at y = 0 as it was drawn
C16_Witness ==
    /\ calls # <<>>
    /\ calls[1].call = "add_cutout"
    /\ Len(sides[calls[1].side].cutouts) = 1
    /\ LET self == sides[calls[1].side]
       IN  /\ self.east_face.bb_left = self.south_face.bb_right
           /\ heap[self.south_face.bb_right].y = heap[self.south_face.bb_left].y
           /\ heap[self.east_face.bb_right].x = heap[self.east_face.bb_left].x
           /\ heap[self.east_face.bb_right].y # heap[self.east_face.bb_left].y

\* a thread's whole program run with no other thread, from the Points h
RECURSIVE RunAlone(_, _)
RunAlone(h, st) ==
    IF ~Running(st) THEN [heap |-> h, thread |-> st]
    ELSE Only({RunAlone(r.heap, r.thread) : r \in {ThreadStep(h, st)}})

\* the Box a thread has, its panels with their cutouts, and every Point it
\* can see (those of the caller first), are those of the run alone
SameAsAlone(t) ==
    LET alone == RunAlone(UserPoints,
                          NewThread(threads[t].args, threads[t].program))
    IN  /\ heap \o threads[t].arena = alone.heap
        /\ [threads[t] EXCEPT !.arena = <<>>] = alone.thread

\* C15: whatever the interleaving of the statements of two threads that each
\* build a Box and add cutouts to it, once both have run their programs each
\* has the Box it would have with no other thread: the same lines between the
\* same Points, the same coordinates and construction flags, the same
\* cutouts; and the Points of the caller, which both threads pass, are never
\* written
C15_BoxesAsIfAlone ==
    /\ heap = UserPoints
    /\ (\A t \in Threads : ~Running(threads[t]))
          => \A t \in Threads : SameAsAlone(t)

\* C15 witness: both threads are through, thread 2 having started its Box
\* while thread 1 was building, and the four add_cutout calls having
\* alternated between the threads
C15_Witness ==
    /\ calls = <<1, 2, 2, 1, 2, 1>>
    /\ \A t \in Threads :
          /\ threads[t].pc = "idle"
          /\ threads[t].made = 2
          /\ threads[t].raised = "none"
          /\ Len(threads[t].sides["bottom"].cutouts) = 1
    /\ threads[1].box.bb_sw_point = threads[2].box.bb_sw_point

\* the shift from the outer to the inner boundary of the f-th edge built of a
\* panel: notch_height upwards, turned with the edge by 90 * (f - 1) degrees
InwardShift(edge, f) ==
    CASE f = 1 -> [x |-> Zero, y |-> edge.notch_height]
      [] f = 2 -> [x |-> RNeg(edge.notch_height), y |-> Zero]
      [] f = 3 -> [x |-> Zero, y |-> RNeg(edge.notch_height)]
      [] f = 4 -> [x |-> edge.notch_height, y |-> Zero]

\* the i-th inner segment of an edge is a line of its own, between Points of
\* its own, where the i-th outer segment is after the shift
InnerIsOuterShifted(edge, f, i) ==
    LET inner == edge.inner_lines[i]
        outer == edge.outer_lines[i]
        by == InwardShift(edge, f)
    IN  /\ {inner.source, inner.dest} \cap {outer.source, outer.dest} = {}
        /\ heap[inner.source] = Moved(outer.source, by.x, by.y)
        /\ heap[inner.dest] = Moved(outer.dest, by.x, by.y)
        /\ inner.length = outer.length

\* C21 as stated: every inner segment of every edge, the leading and the
\* trailing one included, is its outer counterpart shifted by notch_height
\* and has the inverse of its counterpart's construction flag
C21_InnerInvertsOuterEverywhere ==
    \A a \in BuiltFaces :
        LET edge == sides[a[1]][FaceNames[a[2]]]
        IN  /\ Len(edge.inner_lines) = Len(edge.outer_lines)
            /\ \A i \in DOMAIN edge.inner_lines :
                  /\ InnerIsOuterShifted(edge, a[2], i)
                  /\ edge.inner_lines[i].is_construction
                         = ~edge.outer_lines[i].is_construction

\* C21, corrected: every inner segment of every edge is its outer counterpart
\* shifted by notch_height; between the leading and the trailing segment its
\* construction flag is the inverse of its counterpart's, while the leading
\* and the trailing inner segment are non-construction exactly when is_wide
\* holds and is_tall does not
C21_InnerInvertsOuterBetweenEnds ==
    \A a \in BuiltFaces :
        LET edge == sides[a[1]][FaceNames[a[2]]]
            last == Len(edge.outer_lines)
        IN  /\ Len(edge.inner_lines) = last
            /\ \A i \in DOMAIN edge.inner_lines :
                  /\ InnerIsOuterShifted(edge, a[2], i)
                  /\ IF i \in {1, last}
                     THEN ~edge.inner_lines[i].is_construction
                              <=> (edge.is_wide /\ ~edge.is_tall)
                     ELSE edge.inner_lines[i].is_construction
                              = ~edge.outer_lines[i].is_construction

\* C21 witness: the bottom panel of a finished Box(100, 50, 65, 3, 2), neither
\* wide nor tall: on its east edge the leading outer and the leading inner
\* segment are both construction lines, the inner one 3 to the west of the
\* outer one, and the second inner segment has the inverse flag of the second
\* outer one
C21_Witness ==
    /\ BoxBuilt
    /\ args.width = Float(100)
    /\ LET edge == sides["bottom"].east_face
       IN  /\ ~edge.is_wide /\ ~edge.is_tall
           /\ edge.notch_height = Float(3)
           /\ edge.outer_lines[1].is_construction
           /\ edge.inner_lines[1].is_construction
           /\ heap[edge.inner_lines[1].source]
                  = Moved(edge.outer_lines[1].source, Float(-3), Zero)
           /\ edge.inner_lines[2].is_construction
                  = ~edge.outer_lines[2].is_construction

\* the line is a real one, no construction line
Real(line) == ~line.is_construction

\* an edge has one connector per pair of neighbouring boundary positions, from
\* the end of the inner segment to the end of the outer segment at the first
RunsBetweenBoundaries(edge) ==
    /\ Len(edge.vert_lines) = Len(edge.inner_lines) - 1
    /\ \A i \in DOMAIN edge.vert_lines :
          /\ edge.vert_lines[i].source = edge.inner_lines[i].dest
          /\ edge.vert_lines[i].dest = edge.outer_lines[i].dest

\* C22 as stated: the connector between the boundary positions i and i + 1 is
\* non-construction exactly when (inner[i] or outer[i+1] is non-construction)
\* and (outer[i] or inner[i+1] is non-construction)
C22_ConnectorRealIfEitherOfEach ==
    \A edge \in BuiltEdges : \A i \in DOMAIN edge.vert_lines :
        Real(edge.vert_lines[i])
            <=> /\ Real(edge.inner_lines[i]) \/ Real(edge.outer_lines[i + 1])
                /\ Real(edge.outer_lines[i]) \/ Real(edge.inner_lines[i + 1])

\* C22, corrected: the connector between the boundary positions i and i + 1
\* runs from the end of inner[i] to the end of outer[i] and is
\* non-construction exactly when inner[i] and outer[i+1] are both
\* non-construction or outer[i] and inner[i+1] are both non-construction
C22_ConnectorRealIfBothOfOne ==
    \A edge \in BuiltEdges :
        /\ RunsBetweenBoundaries(edge)
        /\ \A i \in DOMAIN edge.vert_lines :
              Real(edge.vert_lines[i])
                  <=> \/ Real(edge.inner_lines[i])
                         /\ Real(edge.outer_lines[i + 1])
                      \/ Real(edge.outer_lines[i])
                         /\ Real(edge.inner_lines[i + 1])

\* C22 witness: the south edge of the bottom panel of a finished
\* Box(100, 50, 65, 3, 2): at position 2 the inner segment and the next outer
\* segment are real and the other two are not, and the connector is real; at
\* position 1, where only the next inner segment is real, it is a
\* construction line
C22_Witness ==
    /\ BoxBuilt
    /\ args.width = Float(100)
    /\ LET edge == sides["bottom"].south_face
       IN  /\ Real(edge.inner_lines[2]) /\ Real(edge.outer_lines[3])
           /\ ~Real(edge.outer_lines[2]) /\ ~Real(edge.inner_lines[3])
           /\ Real(edge.vert_lines[2])
           /\ ~Real(edge.inner_lines[1]) /\ ~Real(edge.outer_lines[1])
           /\ ~Real(edge.vert_lines[1])

\* the notches an edge has: range(notch_count) is empty for a count below 0
Notches(edge) == IF edge.notch_count > 0 THEN edge.notch_count ELSE 0

\* the count the statement of C23 gives for an edge
StatedLineCount(edge) ==
    2 * (IF edge.is_tall THEN 1 ELSE 0) + 2 * (2 * edge.notch_count + 1)

\* C23 as stated: an Edge built with notch_count = n holds exactly
\* 2 * (1 if is_tall else 0) + 2 * (2 * n + 1) lines
C23_LineCountAsStated ==
    \A edge \in BuiltEdges : Len(edge.lines) = StatedLineCount(edge)

\* C23, corrected: an Edge built with notch_count = n >= 0 holds exactly
\* 6 * n + 8 lines, 2 * n + 3 outer, 2 * n + 3 inner and 2 * n + 2 connectors,
\* whatever is_wide and is_tall are (for n < 0 as for n = 0), of which
\* 4 * n + 1 are non-construction lines if is_wide does not hold and 4 * n + 3
\* if it does
C23_LineCount ==
    \A edge \in BuiltEdges :
        LET n == Notches(edge)
        IN  /\ Len(edge.outer_lines) = 2 * n + 3
            /\ Len(edge.inner_lines) = 2 * n + 3
            /\ Len(edge.vert_lines) = 2 * n + 2
            /\ Len(edge.lines) = 6 * n + 8
            /\ RealLines(edge.lines)
                   = 4 * n + 1 + (IF edge.is_wide THEN 2 ELSE 0)

\* C23 witness: the south edge of the bottom panel of a finished
\* Box(100, 50, 65, 3, 2), with 5 notches and not tall: 38 lines, where the
\* statement's count is 22
C23_Witness ==
    /\ BoxBuilt
    /\ args.width = Float(100)
    /\ sides["bottom"].south_face.notch_count = 5
    /\ ~sides["bottom"].south_face.is_tall
    /\ Len(sides["bottom"].south_face.lines) = 38
    /\ RealLines(sides["bottom"].south_face.lines) = 21
    /\ StatedLineCount(sides["bottom"].south_face) = 22

\* where a Point of the f-th edge built of a panel was before the edge was
\* rotated by 90 * (f - 1) degrees about its bb_left: the point turned back
BeforeRotation(edge, f, p) ==
    Point_rotate(heap[p], 360 - FaceRotate(f), heap[edge.bb_left])

\* coords_for_plot of a line of the edge before the rotation
KeyBeforeRotation(edge, f, line) ==
    <<BeforeRotation(edge, f, line.source).x,
      BeforeRotation(edge, f, line.dest).x,
      BeforeRotation(edge, f, line.source).y,
      BeforeRotation(edge, f, line.dest).y>>

\* the lines of an edge are in ascending order of the key they had before
\* the rotation
AscendingBeforeRotation(edge, f) ==
    \A i \in 1..(Len(edge.lines) - 1) :
        ~KeyLess(KeyBeforeRotation(edge, f, edge.lines[i + 1]),
                 KeyBeforeRotation(edge, f, edge.lines[i]))

\* the lines of an edge are in ascending order of the key they have now
AscendingNow(edge) ==
    \A i \in 1..(Len(edge.lines) - 1) :
        ~KeyLess(coords_for_plot(heap, edge.lines[i + 1]),
                 coords_for_plot(heap, edge.lines[i]))

\* the set of the lines of a list
LineSet(lines) == {lines[i] : i \in DOMAIN lines}

\* every outer, inner and connector line is in the edge's lines exactly once,
\* and nothing else is: the two lists are as long as each other and as the
\* set of their lines
EveryLineOnce(edge) ==
    LET made == edge.inner_lines \o edge.outer_lines \o edge.vert_lines
    IN  /\ Len(edge.lines) = Len(made)
        /\ LineSet(edge.lines) = LineSet(made)
        /\ Cardinality(LineSet(made)) = Len(made)

\* C24: the lines of every edge are its outer, inner and connector lines,
\* each exactly once, in the ascending order of the key
\* ([source.x, dest.x], [source.y, dest.y]) taken before the rotation; the
\* rotation has left the list in that order (seen in every state of the
\* construction and at its end; no later call changes an edge)
C24_LinesSortedBeforeRotation ==
    calls = <<>> =>
        \A a \in BuiltFaces :
            /\ EveryLineOnce(sides[a[1]][FaceNames[a[2]]])
            /\ AscendingBeforeRotation(sides[a[1]][FaceNames[a[2]]], a[2])

\* C24 witness: the east edge of the bottom panel of a finished
\* Box(100, 50, 65, 3, 2), rotated by 90 degrees: its 26 lines are in the
\* order of the keys from before the rotation, which is not the ascending
\* order of the keys they have now
C24_Witness ==
    /\ BoxBuilt
    /\ args.width = Float(100)
    /\ Len(sides["bottom"].east_face.lines) = 26
    /\ AscendingBeforeRotation(sides["bottom"].east_face, 2)
    /\ ~AscendingNow(sides["bottom"].east_face)
    /\ AscendingNow(sides["bottom"].south_face)

\* C25 as stated: no Line is made with its source and its dest at the same
\* coordinates: draw_horiz and draw_vert with a distance of zero return the
\* original point and make no Point and no Line
C25_NoZeroLengthLine ==
    \A i \in DOMAIN calls :
        calls[i].call \in {"draw_horiz", "draw_vert"} =>
            heap[calls[i].value[1].source] # heap[calls[i].value[1].dest]

\* C25 witness: (1, 1).draw_horiz(Dim(0)) has returned a Line from the Point
\* to a new Point, both at (1, 1)
C25_Witness ==
    /\ Len(calls) = 1
    /\ calls[1].call = "draw_horiz"
    /\ calls[1].args.dist = Zero
    /\ calls[1].value[1].source = calls[1].args.point
    /\ calls[1].value[1].dest # calls[1].value[1].source
    /\ calls[1].value[1].dest = Len(UserPoints) + 1
    /\ heap[calls[1].value[1].source] = [x |-> Float(1), y |-> Float(1)]
    /\ heap[calls[1].value[1].dest] = [x |-> Float(1), y |-> Float(1)]

\* the coordinates at which the non-construction lines of a list end
RealEnds(lines) ==
    {heap[lines[i].source] : i \in {j \in DOMAIN lines : Real(lines[j])}}
        \cup {heap[lines[i].dest] : i \in {j \in DOMAIN lines : Real(lines[j])}}

\* the number of non-construction line ends of a list at the coordinate c
RealEndsAt(lines, c) ==
    Cardinality({i \in DOMAIN lines : Real(lines[i]) /\ heap[lines[i].source] = c})
        + Cardinality({i \in DOMAIN lines : Real(lines[i]) /\ heap[lines[i].dest] = c})

\* the coordinates one non-construction line away from the coordinate c
RealNeighbours(lines, c) ==
    {heap[lines[i].dest] :
        i \in {j \in DOMAIN lines : Real(lines[j]) /\ heap[lines[j].source] = c}}
        \cup {heap[lines[i].source] :
                i \in {j \in DOMAIN lines : Real(lines[j]) /\ heap[lines[j].dest] = c}}

\* the number of lines walked along the non-construction lines from start,
\* never turning back, until start is met again; -1 when the walk gets stuck
RECURSIVE OutlineWalk(_, _, _, _, _)
OutlineWalk(lines, start, prev, at, n) ==
    IF n > 0 /\ at = start THEN n
    ELSE IF n > Len(lines) THEN -1
    ELSE LET onward == RealNeighbours(lines, at) \ prev
         IN  IF onward = {} THEN -1
             ELSE OutlineWalk(lines, start, {at},
                              CHOOSE q \in onward : TRUE, n + 1)

\* the non-construction lines of a list form one closed outline: every
\* coordinate where one of them ends is the end of exactly two of them, and a
\* walk along them from any such coordinate passes all of them before it is
\* back
OneClosedOutline(lines) ==
    /\ RealLines(lines) > 0
    /\ \A c \in RealEnds(lines) : RealEndsAt(lines, c) = 2
    /\ \E c \in RealEnds(lines) :
          OutlineWalk(lines, c, {}, c, 0) = RealLines(lines)

\* the panels to which C26 applies: finished, with both notch counts at
\* least 1
NotchedPanels ==
    {name \in DOMAIN sides :
        /\ Finished(sides[name])
        /\ sides[name].side_info.ew_notch_count >= 1
        /\ sides[name].side_info.ns_notch_count >= 1}

\* C26: once the constructor has returned, the non-construction lines of
\* every panel whose notch counts are at least 1 (every panel of a Box whose
\* tab counts are at least 1, and a Side on its own for each of the four
\* is_wide/is_tall pairs) form one closed outline: every coordinate where a
\* non-construction line ends is the end of exactly two of them
C26_RealLinesCloseOutline ==
    (pc = "idle" /\ calls = <<>>) =>
        \A name \in NotchedPanels : OneClosedOutline(all_lines(sides[name]))

\* C26 witness: Box(100, 50, 65, 3, 2) finished, all tab counts 5, with the
\* 68 non-construction lines of its bottom panel (neither wide nor tall), the
\* 60 of its right panel (both) and the 72 of its upper panel (tall only),
\* each set one closed outline
C26_Witness ==
    /\ BoxBuilt /\ calls = <<>>
    /\ args.width = Float(100) /\ args.thickness = Float(3)
    /\ TabsAtLeastOne
    /\ NotchedPanels = {"bottom", "right", "upper", "left", "top", "lower"}
    /\ RealLines(all_lines(sides["bottom"])) = 68
    /\ RealLines(all_lines(sides["right"])) = 60
    /\ RealLines(all_lines(sides["upper"])) = 72
    /\ \A name \in {"bottom", "right", "upper"} :
          OneClosedOutline(all_lines(sides[name]))

\* the dimension of the Box that the letter k names
BoxDim(k) ==
    CASE k = "w" -> box.width
      [] k = "h" -> box.height
      [] k = "d" -> box.depth

\* what a bounding box measures: from its south-west corner east along the
\* south side and west-to-east along the north side (width), and north along
\* the two other sides (height)
Measures(bb, width, height) ==
    /\ RSub(heap[bb.se].x, heap[bb.sw].x) = width
    /\ RSub(heap[bb.ne].x, heap[bb.nw].x) = width
    /\ RSub(heap[bb.nw].y, heap[bb.sw].y) = height
    /\ RSub(heap[bb.ne].y, heap[bb.se].y) = height

\* a panel of the Box has the stated measures: the outer bounding box
\* (ew_dim + 2 thickness) by (ns_dim + 2 thickness), the inner one ew_dim by
\* ns_dim
PanelMeasuresAsStated(name) ==
    LET ew_dim == BoxDim(SideDims(name).ew)
        ns_dim == BoxDim(SideDims(name).ns)
        twice == RMul(box.thickness, 2)
    IN  /\ Measures(sides[name].bounding_box,
                    RAdd(ew_dim, twice), RAdd(ns_dim, twice))
        /\ Measures(sides[name].inner_bounding_box, ew_dim, ns_dim)

\* C27 as stated: every panel of a Box has an outer bounding box of
\* (ew_dim + 2 thickness) by (ns_dim + 2 thickness) and an inner bounding box
\* of ew_dim by ns_dim, where (ew_dim, ns_dim) is (width, depth) for bottom
\* and top, (height, depth) for left and right, (width, height) for upper and
\* lower
C27_PanelMeasures ==
    BoxBuilt =>
        \A name \in DOMAIN sides :
            Finished(sides[name]) => PanelMeasuresAsStated(name)

\* C27 for the Boxes whose three tab counts are at least 1: there the panels
\* have the stated measures
C27_PanelMeasuresWithTabs ==
    (BoxBuilt /\ TabsAtLeastOne) =>
        \A name \in DOMAIN sides :
            Finished(sides[name]) => PanelMeasuresAsStated(name)

\* C27 witness: Box(7, 8, 9, 2, 1) finished, with tab counts -1; its bottom
\* panel, for width 7 and depth 9, has an outer bounding box of -3 by -5 and
\* an inner one of -7 by -9
C27_Witness ==
    /\ BoxBuilt
    /\ args.width = Float(7) /\ args.depth = Float(9)
    /\ args.thickness = Float(2)
    /\ box.tab_num["w"] = -1 /\ box.tab_num["d"] = -1
    /\ Cardinality(DOMAIN sides) = 6
    /\ Measures(sides["bottom"].bounding_box, Float(-3), Float(-5))
    /\ Measures(sides["bottom"].inner_bounding_box, Float(-7), Float(-9))

\* C27 witness for the Boxes with tabs: Box(100, 50, 65, 3, 2) finished, with
\* a right panel of 56 by 71 outside and 50 by 65 inside
C27_WitnessWithTabs ==
    /\ BoxBuilt /\ TabsAtLeastOne
    /\ args.width = Float(100) /\ args.thickness = Float(3)
    /\ Cardinality(DOMAIN sides) = 6
    /\ Measures(sides["right"].bounding_box, Float(56), Float(71))
    /\ Measures(sides["right"].inner_bounding_box, Float(50), Float(65))

\* the segment length returned is at least 2 thickness, and at least
\* 3 thickness when the 3x rule gave the count (its result being 3 or more)
SegmentsLongEnough ==
    /\ RLeq(RMul(calc.thickness, 2), calc.result.length)
    /\ TabsFor(calc.dim, calc.thickness, 3) >= 3 =>
          RLeq(RMul(calc.thickness, 3), calc.result.length)

\* C28 as stated: whenever calc_tab_num_and_length returns a tab count of at
\* least 1, the segment length returned is at least 2 * thickness, and at
\* least 3 * thickness whenever the result of the 3x rule was chosen
C28_SegmentsAtLeastTwoThicknesses ==
    (pc = "returned" /\ calc.result.tabs >= 1) => SegmentsLongEnough

\* C28, corrected: for a positive thickness, whenever calc_tab_num_and_length
\* returns a tab count of at least 1, the segment length returned is at least
\* 2 * thickness, and at least 3 * thickness whenever the result of the 3x
\* rule was chosen
C28_SegmentsAtLeastTwoPositiveThicknesses ==
    (pc = "returned" /\ calc.result.tabs >= 1 /\ RLess(Zero, calc.thickness))
        => SegmentsLongEnough

\* C28 witness: dim 27/2 and thickness 1/2, where the 3x rule gives the 3
\* tabs returned and the segment length 27/14 is above 3/2; and dim 5,
\* thickness 1/2, where the 2x rule gives 1 tab and the length 5/3 is above 1
C28_Witness ==
    /\ pc = "returned"
    /\ calc.thickness = Rat(1, 2)
    /\ \/ /\ calc.dim = Rat(27, 2)
          /\ TabsFor(calc.dim, calc.thickness, 3) = 3
          /\ calc.result = [tabs |-> 3, length |-> Rat(27, 14)]
          /\ RLess(Rat(3, 2), calc.result.length)
       \/ /\ calc.dim = Float(5)
          /\ TabsFor(calc.dim, calc.thickness, 3) < 3
          /\ calc.result = [tabs |-> 1, length |-> Rat(5, 3)]
          /\ RLess(Float(1), calc.result.length)

\* the step is a call of add_cutout
IsCutoutStep ==
    /\ Len(calls') = Len(calls) + 1
    /\ calls'[Len(calls')].call = "add_cutout"

\* the Point objects of the corners of a panel's two bounding boxes
BoxPoints(self) ==
    {self.bounding_box[k] : k \in {"sw", "se", "ne", "nw"}}
        \cup {self.inner_bounding_box[k] : k \in {"sw", "se", "ne", "nw"}}

\* the step leaves a set of Points where they are
PointsKept(points) == \A p \in points : heap'[p] = heap[p]

\* C29: a call of add_cutout leaves its two corner arguments, the corners of
\* the panel's inner and outer bounding boxes and the ends of all its lines
\* where they are, and the panel's edges, lines and bounding boxes as they
\* are; the two corners it stores are Point objects made during the call,
\* different from each other, from the arguments and from the bounding-box
\* corners, so a Point given to one call can be given to a later one
C29_CutoutLeavesInputsAndPanel ==
    [][IsCutoutStep =>
          LET c == calls'[Len(calls')]
              self == sides[c.side]
              after == sides'[c.side]
          IN  /\ PointsKept({c.args.corner_1, c.args.corner_2})
              /\ PointsKept(BoxPoints(self))
              /\ PointsKept(LinePoints(all_lines(self)))
              /\ [after EXCEPT !.cutouts = self.cutouts] = self
              /\ c.raised = "none" =>
                    LET stored == after.cutouts[Len(after.cutouts)]
                    IN  /\ Len(after.cutouts) = Len(self.cutouts) + 1
                        /\ stored.c1 \notin DOMAIN heap
                        /\ stored.c2 \notin DOMAIN heap
                        /\ stored.c1 # stored.c2
                        /\ {stored.c1, stored.c2}
                              \cap ({c.args.corner_1, c.args.corner_2}
                                      \cup BoxPoints(self)) = {}]_vars

\* C29 witness: two add_cutout calls on the bottom panel of
\* Box(100, 50, 65, 3, 2) that returned, the circle with corners (1, 1) and
\* (2, 3) and then the hex with the same two Points the other way round; the
\* two Points are where the caller put them and the four stored corners are
\* four further objects
C29_Witness ==
    /\ BoxBuilt /\ args.width = Float(100)
    /\ Len(calls) = 2
    /\ calls[1].side = "bottom"
    /\ calls[1].call = "add_cutout" /\ calls[1].raised = "none"
    /\ calls[2].call = "add_cutout" /\ calls[2].raised = "none"
    /\ calls[1].args.corner_1 = calls[2].args.corner_2
    /\ calls[1].args.corner_2 = calls[2].args.corner_1
    /\ heap[calls[1].args.corner_1] = UserPoints[calls[1].args.corner_1]
    /\ heap[calls[1].args.corner_2] = UserPoints[calls[1].args.corner_2]
    /\ heap[calls[1].args.corner_1] = [x |-> Float(1), y |-> Float(1)]
    /\ Len(sides["bottom"].cutouts) = 2
    /\ Cardinality({sides["bottom"].cutouts[i].c1 : i \in 1..2}
                     \cup {sides["bottom"].cutouts[i].c2 : i \in 1..2}
                     \cup {calls[1].args.corner_1, calls[1].args.corner_2}
                     \cup BoxPoints(sides["bottom"])) = 14

\* C30: a call of add_cutout with a rotate that is no multiple of 90, or
\* with a bb_inner that is none of 'sw', 'se', 'ne', 'nw', ends with an
\* exception and leaves the panel's cutouts as they were before the call
C30_BadCutoutFailsAndKeepsCutouts ==
    [][(/\ IsCutoutStep
        /\ \/ calls'[Len(calls')].args.rotate % 90 # 0
           \/ calls'[Len(calls')].args.bb_inner \notin CornerNames)
          => LET c == calls'[Len(calls')]
             IN  /\ c.raised \in {"AssertionError", "KeyError"}
                 /\ raised' = c.raised
                 /\ sides'[c.side].cutouts = sides[c.side].cutouts]_vars

\* C30 witness: add_cutout with rotate = 45 relative to 'sw' on a panel of
\* Box(100, 50, 65, 3, 2) has ended with an AssertionError and the panel has
\* no cutout
C30_Witness ==
    /\ BoxBuilt /\ args.width = Float(100)
    /\ Len(calls) = 1
    /\ calls[1].call = "add_cutout"
    /\ calls[1].args.rotate = 45
    /\ calls[1].args.bb_inner = <<"s", "w">>
    /\ calls[1].raised = "AssertionError"
    /\ raised = "AssertionError"
    /\ sides[calls[1].side].cutouts = <<>>

====
